---------------------------- MODULE Spec2Model ----------------------------
(***************************************************************************)
(* Model of the decode / derive / resample pipeline of simple-bin-plotter. *)
(*                                                                         *)
(*   BinaryReader   (src/unnamed/part_000)  readFile, readChannelData,     *)
(*                                          computeCalculatedChannels      *)
(*   convertAdcToPhysical (src/src/utils.js)                               *)
(*   DataProcessor  (src/unnamed/part_002, second class)                   *)
(*                                          getResampledData, findTimeIndex*)
(*                                                                         *)
(* Numbers.  JavaScript numbers are modelled as exact rationals <<n, d>>   *)
(* with d > 0 and gcd(n, d) = 1, extended by the three IEEE specials       *)
(* NaN = <<0,0>>, +Infinity = <<1,0>>, -Infinity = <<-1,0>>.  Rounding to  *)
(* float32 on storing into a Float32Array is not modelled.  A read of an   *)
(* array outside its bounds yields JavaScript's undefined, which every     *)
(* arithmetic use in this code turns into NaN; it is modelled as NaN.      *)
(* Times are kept in nanoseconds (the code's division by 1e9 is a change   *)
(* of unit, applied uniformly to every time the model holds).              *)
(***************************************************************************)
EXTENDS Integers, Sequences, FiniteSets, TLC

VARIABLES
    pc,             \* lifecycle of the BinaryReader: "constructed", "decoded", "failed"
    buffer,         \* the bytes fs.promises.readFile returned (readFile's local)
    metadata,       \* this.metadata
    rawData,        \* this.rawData       : channel index -> channel record
    calculatedData, \* this.calculatedData: calc index    -> channel record
    reads,          \* trace of the sample loop of readChannelData: one entry per readInt16LE
    resampled,      \* `data`, the value getResampledData returned to the request being
                    \* answered; << >> while no request is being answered
    call,           \* one call of a helper on its own: its arguments and, once it has
                    \* returned, its result; << >> when no helper is called on its own
    earlier         \* an answer of getResampledData that a client has received and
                    \* kept, with its request; << >> when none is kept

vars == <<pc, buffer, metadata, rawData, calculatedData, reads, resampled, call, earlier>>

-----------------------------------------------------------------------------
(* Bounds of the model *)

MaxBufferSize == 5      \* rows of the sample region: bufferSize \in 0..MaxBufferSize
MaxDownsampling == 2    \* downsampling factors are drawn from 1..MaxDownsampling
MaxMaxPoints == 2       \* maxPoints of a resample request: -1..MaxMaxPoints
MaxUnixMs == 3          \* smallest millisecond counts after the epoch: 0..MaxUnixMs
MaxStringBytes == 6     \* length of the buffers readCSharpString is called on: 0..MaxStringBytes
MaxTimeLen == 4         \* length of the time arrays findTimeIndex is called on: 1..MaxTimeLen
MaxLoopBelow == 4       \* the bucket loop's index i is followed down to -MaxLoopBelow

-----------------------------------------------------------------------------
(* JavaScript number arithmetic *)

Abs(i) == IF i < 0 THEN -i ELSE i

RECURSIVE GCD(_, _)
GCD(a, b) == IF b = 0 THEN a ELSE GCD(b, a % b)

LCM(a, b) == (a \div GCD(a, b)) * b

Norm(n, d) ==
    LET s == IF d < 0 THEN -1 ELSE 1
        g == GCD(Abs(n), Abs(d))
    IN  <<(s * n) \div g, (s * d) \div g>>

NaN == <<0, 0>>
PosInf == <<1, 0>>
NegInf == <<-1, 0>>

FNum(i) == <<i, 1>>
IsNaN(x) == x = NaN
IsFinite(x) == x[2] # 0
Sign(x) == IF x[1] > 0 THEN 1 ELSE IF x[1] < 0 THEN -1 ELSE 0
SignedInf(s) == IF s > 0 THEN PosInf ELSE NegInf

FNeg(a) == <<-a[1], a[2]>>

FAbs(a) == <<Abs(a[1]), a[2]>>

FAdd(a, b) ==
    IF IsNaN(a) \/ IsNaN(b) THEN NaN
    ELSE IF ~IsFinite(a) /\ ~IsFinite(b) THEN (IF a = b THEN a ELSE NaN)
    ELSE IF ~IsFinite(a) THEN a
    ELSE IF ~IsFinite(b) THEN b
    ELSE LET l == LCM(a[2], b[2])
         IN  Norm(a[1] * (l \div a[2]) + b[1] * (l \div b[2]), l)

FSub(a, b) == FAdd(a, FNeg(b))

FMul(a, b) ==
    IF IsNaN(a) \/ IsNaN(b) THEN NaN
    ELSE IF ~IsFinite(a) \/ ~IsFinite(b)
         THEN (IF Sign(a) = 0 \/ Sign(b) = 0 THEN NaN ELSE SignedInf(Sign(a) * Sign(b)))
    ELSE LET g1 == GCD(Abs(a[1]), b[2])
             g2 == GCD(Abs(b[1]), a[2])
         IN  Norm((a[1] \div g1) * (b[1] \div g2), (a[2] \div g2) * (b[2] \div g1))

FDiv(a, b) ==
    IF IsNaN(a) \/ IsNaN(b) THEN NaN
    ELSE IF ~IsFinite(a) /\ ~IsFinite(b) THEN NaN
    ELSE IF ~IsFinite(a) THEN SignedInf(Sign(a) * (IF Sign(b) < 0 THEN -1 ELSE 1))
    ELSE IF ~IsFinite(b) THEN FNum(0)
    ELSE IF Sign(b) = 0 THEN (IF Sign(a) = 0 THEN NaN ELSE SignedInf(Sign(a)))
    ELSE FMul(a, Norm(b[2], b[1]))

FLess(a, b) ==
    IF IsNaN(a) \/ IsNaN(b) THEN FALSE
    ELSE IF ~IsFinite(a) /\ ~IsFinite(b) THEN a[1] < b[1]
    ELSE IF ~IsFinite(a) THEN a[1] < 0
    ELSE IF ~IsFinite(b) THEN b[1] > 0
    ELSE LET l == LCM(a[2], b[2])
         IN  a[1] * (l \div a[2]) < b[1] * (l \div b[2])

FLeq(a, b) == ~IsNaN(a) /\ ~IsNaN(b) /\ ~FLess(b, a)

\* Math.min / Math.max: NaN when either argument is NaN
FMin(a, b) == IF IsNaN(a) \/ IsNaN(b) THEN NaN ELSE IF FLess(b, a) THEN b ELSE a

FMax(a, b) == IF IsNaN(a) \/ IsNaN(b) THEN NaN ELSE IF FLess(a, b) THEN b ELSE a

\* typedArray[i] / array[i] with a 0-based index: undefined (used as NaN) outside the array
At(arr, i) == IF i >= 0 /\ i < Len(arr) THEN arr[i + 1] ELSE NaN

\* Array.prototype.slice / TypedArray.prototype.slice(begin, end), 0-based, end exclusive
Slice(arr, begin, end) ==
    LET n == Len(arr)
        b == IF begin < 0 THEN (IF n + begin < 0 THEN 0 ELSE n + begin)
             ELSE IF begin > n THEN n ELSE begin
        e == IF end < 0 THEN (IF n + end < 0 THEN 0 ELSE n + end)
             ELSE IF end > n THEN n ELSE end
    IN  IF e <= b THEN << >> ELSE [k \in 1..(e - b) |-> arr[b + k]]

-----------------------------------------------------------------------------
(* 32-bit integer operators of JavaScript, as readCSharpString uses them *)

RECURSIVE Pow2(_)
Pow2(k) == IF k = 0 THEN 1 ELSE 2 * Pow2(k - 1)

\* x << shift for 0 <= x < 128: the shift count is taken modulo 32 and the
\* result wraps to a signed 32-bit integer
Shl32(x, shift) ==
    LET k == shift % 32
        xl == IF k <= 25 THEN x ELSE x % Pow2(32 - k)
        half == Pow2(31 - k)
    IN  IF k = 0 THEN x
        ELSE IF xl >= half THEN (xl - half - half) * Pow2(k)
        ELSE xl * Pow2(k)

Bit(a, i) == (a \div Pow2(i)) % 2

RECURSIVE OrLow(_, _, _)
OrLow(a, b, i) ==
    IF i < 0 THEN 0
    ELSE (IF Bit(a, i) = 1 \/ Bit(b, i) = 1 THEN Pow2(i) ELSE 0) + OrLow(a, b, i - 1)

\* a | b on signed 32-bit integers (two's complement)
BitOr32(a, b) ==
    IF a = 0 THEN b
    ELSE IF b = 0 THEN a
    ELSE LET low == OrLow(a, b, 30)
         IN  IF a < 0 \/ b < 0 THEN low - Pow2(30) - Pow2(30) ELSE low

-----------------------------------------------------------------------------
(* Node.js Buffer reads.  A read outside the buffer throws ERR_OUT_OF_RANGE; *)
(* InRange is the condition under which it does not.                         *)

InRange(buf, offset, size) == offset >= 0 /\ offset + size <= Len(buf)

ReadUInt8(buf, offset) == buf[offset + 1]

ReadInt16LE(buf, offset) ==
    LET u == buf[offset + 1] + 256 * buf[offset + 2]
    IN  IF u >= 32768 THEN u - 65536 ELSE u

ReadInt32LE(buf, offset) ==
    LET b3 == buf[offset + 4]
    IN  buf[offset + 1] + 256 * buf[offset + 2] + 65536 * buf[offset + 3]
        + 16777216 * (IF b3 >= 128 THEN b3 - 256 ELSE b3)

\* values of 2^31 and above do not occur in the files the model enumerates
ReadUInt32LE(buf, offset) ==
    buf[offset + 1] + 256 * buf[offset + 2] + 65536 * buf[offset + 3]
    + 16777216 * buf[offset + 4]

\* the signed 64-bit tick value is kept as its eight little-endian bytes
ReadBigInt64LE(buf, offset) == [k \in 1..8 |-> buf[offset + k]]

\* Buffer.prototype.subarray(begin, end): clamps to the buffer, never throws
Subarray(buf, begin, end) == Slice(buf, begin, end)

\* Buffer.toString('utf8'): one- and two-byte sequences are decoded; any other
\* byte becomes U+FFFD (longer sequences do not occur in the enumerated files)
RECURSIVE Utf8ToString(_)
Utf8ToString(bytes) ==
    IF bytes = << >> THEN << >>
    ELSE LET b1 == bytes[1]
         IN  IF b1 < 128 THEN <<b1>> \o Utf8ToString(Tail(bytes))
             ELSE IF /\ b1 >= 194 /\ b1 <= 223 /\ Len(bytes) >= 2
                     /\ bytes[2] >= 128 /\ bytes[2] <= 191
                  THEN <<(b1 - 192) * 64 + (bytes[2] - 128)>>
                       \o Utf8ToString(Tail(Tail(bytes)))
             ELSE <<65533>> \o Utf8ToString(Tail(bytes))

\* the while (true) loop of readCSharpString: the 7-bit encoded length
RECURSIVE ReadEncodedLength(_, _, _, _)
ReadEncodedLength(buf, currentOffset, length, shift) ==
    IF ~InRange(buf, currentOffset, 1)
    THEN [ok |-> FALSE, length |-> length, offset |-> currentOffset]
    ELSE LET byteVal == ReadUInt8(buf, currentOffset)
             length2 == BitOr32(length, Shl32(byteVal % 128, shift))
         IN  IF byteVal < 128
             THEN [ok |-> TRUE, length |-> length2, offset |-> currentOffset + 1]
             ELSE ReadEncodedLength(buf, currentOffset + 1, length2, shift + 7)

\* ok = FALSE: the call threw
ReadCSharpString(buf, offset) ==
    LET p == ReadEncodedLength(buf, offset, 0, 0)
    IN  IF ~p.ok THEN [ok |-> FALSE, value |-> << >>, newOffset |-> p.offset]
        ELSE IF p.length = 0 THEN [ok |-> TRUE, value |-> << >>, newOffset |-> p.offset]
        ELSE [ok |-> TRUE,
              value |-> Utf8ToString(Subarray(buf, p.offset, p.offset + p.length)),
              newOffset |-> p.offset + p.length]

\* for (i = 0; i < 8; i++) push(buffer.readInt32LE(offset)); offset += 4
RECURSIVE ReadInt32Array(_, _, _)
ReadInt32Array(buf, offset, n) ==
    IF n = 0 THEN [ok |-> TRUE, values |-> << >>, newOffset |-> offset]
    ELSE IF ~InRange(buf, offset, 4) THEN [ok |-> FALSE, values |-> << >>, newOffset |-> offset]
    ELSE LET rest == ReadInt32Array(buf, offset + 4, n - 1)
         IN  [ok |-> rest.ok, values |-> <<ReadInt32LE(buf, offset)>> \o rest.values,
              newOffset |-> rest.newOffset]

RECURSIVE ReadInt16Array(_, _, _)
ReadInt16Array(buf, offset, n) ==
    IF n = 0 THEN [ok |-> TRUE, values |-> << >>, newOffset |-> offset]
    ELSE IF ~InRange(buf, offset, 2) THEN [ok |-> FALSE, values |-> << >>, newOffset |-> offset]
    ELSE LET rest == ReadInt16Array(buf, offset + 2, n - 1)
         IN  [ok |-> rest.ok, values |-> <<ReadInt16LE(buf, offset)>> \o rest.values,
              newOffset |-> rest.newOffset]

RECURSIVE ReadStringArray(_, _, _)
ReadStringArray(buf, offset, n) ==
    IF n = 0 THEN [ok |-> TRUE, values |-> << >>, newOffset |-> offset]
    ELSE LET r == ReadCSharpString(buf, offset)
         IN  IF ~r.ok THEN [ok |-> FALSE, values |-> << >>, newOffset |-> offset]
             ELSE LET rest == ReadStringArray(buf, r.newOffset, n - 1)
                  IN  [ok |-> rest.ok, values |-> <<r.value>> \o rest.values,
                       newOffset |-> rest.newOffset]

-----------------------------------------------------------------------------
(* BigInt arithmetic and convertBinaryTimestampToUnixMs.  A signed 64-bit     *)
(* BigInt is held as its eight two's-complement bytes, least significant      *)
(* first (what readBigInt64LE reads); a non-negative one is the base-256      *)
(* number those digits spell.                                                 *)

\* the digits of an integer 0 <= n < 2^31
BigOf(n) == <<n % 256, (n \div 256) % 256, (n \div 65536) % 256, n \div 16777216, 0, 0, 0, 0>>

\* startTimeBinary >= 0 is false exactly when the sign bit is set
BigIsNegative(x) == x[8] >= 128

\* a < b on non-negative values, from the most significant digit down
RECURSIVE BigLessFrom(_, _, _)
BigLessFrom(a, b, k) ==
    IF k = 0 THEN FALSE
    ELSE IF a[k] # b[k] THEN a[k] < b[k]
    ELSE BigLessFrom(a, b, k - 1)

BigLess(a, b) == BigLessFrom(a, b, 8)

\* a + b, digit by digit with carry
RECURSIVE BigAddFrom(_, _, _, _)
BigAddFrom(a, b, k, carry) ==
    IF k > 8 THEN << >>
    ELSE <<(a[k] + b[k] + carry) % 256>>
         \o BigAddFrom(a, b, k + 1, (a[k] + b[k] + carry) \div 256)

BigAdd(a, b) == BigAddFrom(a, b, 1, 0)

\* a - b for a >= b, digit by digit with borrow
RECURSIVE BigSubFrom(_, _, _, _)
BigSubFrom(a, b, k, borrow) ==
    IF k > 8 THEN << >>
    ELSE <<(a[k] - b[k] - borrow) % 256>>
         \o BigSubFrom(a, b, k + 1, IF a[k] - b[k] - borrow < 0 THEN 1 ELSE 0)

BigSub(a, b) == BigSubFrom(a, b, 1, 0)

\* a / d for a small divisor d, remainder discarded: long division from the
\* most significant digit down
RECURSIVE BigDivFrom(_, _, _, _)
BigDivFrom(a, d, k, rem) ==
    IF k = 0 THEN << >>
    ELSE BigDivFrom(a, d, k - 1, (rem * 256 + a[k]) % d) \o <<(rem * 256 + a[k]) \div d>>

BigDiv(a, d) == BigDivFrom(a, d, 8, 0)

\* a faulty variant of TicksMask: a 63-bit mask
TicksMask63(startTimeBinary) == [startTimeBinary EXCEPT ![8] = @ % 128]

\* startTimeBinary & 0x3FFFFFFFFFFFFFFFn.  BigInt & works on the infinite
\* two's-complement form, so for a negative operand too the result is the low
\* 62 bits, a non-negative value.
TicksMask(startTimeBinary) == [startTimeBinary EXCEPT ![8] = @ % 64]

\* dotNetEpochTicks = 621355968000000000n
DotNetEpochTicks == <<0, 128, 181, 247, 245, 127, 159, 8>>

\* 365 * 24 * 3600 * 1000
YearMs == <<0, 44, 177, 87, 7, 0, 0, 0>>

\* Number(unixTicks / 10000n): the quotient is below 2^53, so the conversion
\* to a number is exact
NumberOf(bigint) == bigint

\* convertBinaryTimestampToUnixMs(startTimeBinary), with `now` the value
\* Date.now() returns.  Nothing in the try block throws.
ConvertBinaryTimestampToUnixMs(startTimeBinary, now) ==
    LET masked == TicksMask(startTimeBinary)
        \* in the else branch `ticks < 0` is false (masked is non-negative), so
        \* the absValue assignment is never executed
        ticks == IF ~BigIsNegative(startTimeBinary) THEN masked
                 ELSE IF BigIsNegative(masked) THEN TicksMask(BigSub(BigOf(0), startTimeBinary))
                 ELSE masked
        unixTicks == BigSub(ticks, DotNetEpochTicks)
        unixMs == NumberOf(BigDiv(unixTicks, 10000))
    IN  IF /\ BigLess(DotNetEpochTicks, ticks)
           /\ BigLess(BigOf(0), unixMs)
           /\ BigLess(unixMs, BigAdd(now, YearMs))
        THEN unixMs
        ELSE BigOf(0)

-----------------------------------------------------------------------------
(* convertAdcToPhysical, src/src/utils.js *)

\* VOLTAGE_RANGES[channelRange] || 5.0
\* a faulty variant of VoltageRange: a code outside the table takes the nearest
\* table entry
VoltageRangeClamped(channelRange) ==
    CASE channelRange <= 0 -> <<1, 100>>
      [] channelRange = 1 -> <<1, 50>>
      [] channelRange = 2 -> <<1, 20>>
      [] channelRange = 3 -> <<1, 10>>
      [] channelRange = 4 -> <<1, 5>>
      [] channelRange = 5 -> <<1, 2>>
      [] channelRange = 6 -> <<1, 1>>
      [] channelRange = 7 -> <<2, 1>>
      [] channelRange = 8 -> <<5, 1>>
      [] channelRange = 9 -> <<10, 1>>
      [] channelRange = 10 -> <<20, 1>>
      [] channelRange = 11 -> <<50, 1>>
      [] channelRange = 12 -> <<100, 1>>
      [] OTHER -> <<200, 1>>

VoltageRange(channelRange) ==
    CASE channelRange = 0 -> <<1, 100>>
      [] channelRange = 1 -> <<1, 50>>
      [] channelRange = 2 -> <<1, 20>>
      [] channelRange = 3 -> <<1, 10>>
      [] channelRange = 4 -> <<1, 5>>
      [] channelRange = 5 -> <<1, 2>>
      [] channelRange = 6 -> <<1, 1>>
      [] channelRange = 7 -> <<2, 1>>
      [] channelRange = 8 -> <<5, 1>>
      [] channelRange = 9 -> <<10, 1>>
      [] channelRange = 10 -> <<20, 1>>
      [] channelRange = 11 -> <<50, 1>>
      [] channelRange = 12 -> <<100, 1>>
      [] channelRange = 13 -> <<200, 1>>
      [] OTHER -> <<5, 1>>

ConvertAdcToPhysical(rawAdc, maxAdcValue, channelRange, channelScaling) ==
    LET voltageRange == VoltageRange(channelRange)
        millivolts == FMul(FMul(FDiv(FNum(rawAdc), FNum(maxAdcValue)), voltageRange),
                           FNum(1000))
    IN  FMul(FDiv(FNum(channelScaling), FNum(1000)), millivolts)

-----------------------------------------------------------------------------
(* BinaryReader.readChannelData *)

Channels == 0..7

\* a faulty variant of ExpectedPoints: one element fewer is allocated
ExpectedPointsOneLess(bufferSize, d) ==
    IF d > 0 THEN (IF bufferSize \div d >= 1 THEN bufferSize \div d - 1 ELSE 0)
    ELSE IF bufferSize = 0 THEN 0
    ELSE -1

\* Math.floor(bufferSize / downsampling[channel]) as the length handed to
\* new Float32Array: -1 stands for a length the constructor rejects (RangeError)
ExpectedPoints(bufferSize, d) ==
    IF d > 0 THEN bufferSize \div d
    ELSE IF bufferSize = 0 THEN 0
    ELSE -1

\* a faulty variant of RowSelected: the row test is off by one row
RowSelectedNextRow(j, d) == d # 0 /\ (j + 1) % Abs(d) = 0

\* j % downsampling[channel] === 0, for j >= 0 (NaN for a zero factor)
RowSelected(j, d) == d # 0 /\ j % Abs(d) = 0

\* typedArray[index] = value: a store outside a typed array is ignored
TypedStore(arr, index, value) ==
    IF index >= 0 /\ index < Len(arr) THEN [arr EXCEPT ![index + 1] = value] ELSE arr

ZeroArray(n) == [k \in 1..n |-> FNum(0)]

\* the nested loops over rows j and channels, flattened: n = 8 * j + channel
RECURSIVE SampleLoop(_, _, _, _, _, _)
SampleLoop(buf, md, bufferSize, downsampling, n, st) ==
    LET j == n \div 8
        channel == n % 8
    IN  IF n >= 8 * bufferSize THEN st
        ELSE IF ~RowSelected(j, downsampling[channel + 1])
             THEN SampleLoop(buf, md, bufferSize, downsampling, n + 1, st)
        ELSE IF ~InRange(buf, st.dataOffset, 2) THEN [st EXCEPT !.ok = FALSE]
        ELSE LET rawAdc == ReadInt16LE(buf, st.dataOffset)
                 physicalValue == ConvertAdcToPhysical(rawAdc, md.maxAdcValue,
                                      md.channelRanges[channel + 1],
                                      md.channelScaling[channel + 1])
                 index == st.channelIndices[channel + 1]
             IN  SampleLoop(buf, md, bufferSize, downsampling, n + 1,
                   [ok |-> TRUE,
                    dataOffset |-> st.dataOffset + 2,
                    channelIndices |-> [st.channelIndices EXCEPT ![channel + 1] = index + 1],
                    channelDataArrays |->
                        [st.channelDataArrays EXCEPT
                            ![channel + 1] = TypedStore(@, index, physicalValue)],
                    reads |-> Append(st.reads,
                                [row |-> j, channel |-> channel, offset |-> st.dataOffset])])

\* a faulty variant of RawChannel: the time axis advances by the row interval,
\* without the channel's downsampling factor
RawChannelRowTime(md, downsampling, channel, actualPoints, dataArray) ==
    [time |-> [i \in 1..actualPoints |-> FMul(FNum(i - 1), FNum(md.samplingInterval))],
     values |-> Slice(dataArray, 0, actualPoints),
     label |-> md.labels[channel + 1],
     unit |-> md.units[channel + 1],
     downsampling |-> downsampling[channel + 1],
     points |-> actualPoints,
     timeRef |-> <<"channel", channel>>]

\* the record stored as this.rawData[`channel_${channel}`]
RawChannel(md, downsampling, channel, actualPoints, dataArray) ==
    LET dtSeconds == FMul(FNum(md.samplingInterval), FNum(downsampling[channel + 1]))
    IN  [time |-> [i \in 1..actualPoints |-> FMul(FNum(i - 1), dtSeconds)],
         values |-> Slice(dataArray, 0, actualPoints),
         label |-> md.labels[channel + 1],
         unit |-> md.units[channel + 1],
         downsampling |-> downsampling[channel + 1],
         points |-> actualPoints,
         timeRef |-> <<"channel", channel>>]

\* ok = FALSE: the call threw; rawData is assigned only by the last loop
ReadChannelData(buf, md, startOffset, bufferSize, downsampling) ==
    LET expectedPoints == [c \in 1..8 |-> ExpectedPoints(bufferSize, downsampling[c])]
        allocOk == \A c \in 1..8 : expectedPoints[c] >= 0
        st == SampleLoop(buf, md, bufferSize, downsampling, 0,
                [ok |-> TRUE,
                 dataOffset |-> startOffset,
                 channelIndices |-> [c \in 1..8 |-> 0],
                 channelDataArrays |-> [c \in 1..8 |-> ZeroArray(expectedPoints[c])],
                 reads |-> << >>])
    IN  IF ~allocOk THEN [ok |-> FALSE, rawData |-> << >>, reads |-> << >>]
        ELSE IF ~st.ok THEN [ok |-> FALSE, rawData |-> << >>, reads |-> st.reads]
        ELSE [ok |-> TRUE,
              rawData |-> [channel \in Channels |->
                              RawChannel(md, downsampling, channel,
                                         st.channelIndices[channel + 1],
                                         st.channelDataArrays[channel + 1])],
              reads |-> st.reads]

-----------------------------------------------------------------------------
(* BinaryReader.computeCalculatedChannels and the formulas it dispatches to *)

TRAFO_STROM_MULTIPLIER == 35

\* 6.2832 and 5.0108
FORCE_COEFF_1 == <<3927, 625>>
FORCE_COEFF_2 == <<12527, 2500>>

CalcIndices == 0..6

\* calcChannelDefs
CalcChannelDefs(calcIndex) ==
    CASE calcIndex = 0 -> [label |-> "UL3L1*", unit |-> "V", sourceChannels |-> <<0, 1>>]
      [] calcIndex = 1 -> [label |-> "IL2GR1*", unit |-> "V", sourceChannels |-> <<2, 3>>]
      [] calcIndex = 2 -> [label |-> "IL2GR2*", unit |-> "V", sourceChannels |-> <<4, 5>>]
      [] calcIndex = 3 -> [label |-> "I_DC_GR1*", unit |-> "A", sourceChannels |-> <<2, 3>>]
      [] calcIndex = 4 -> [label |-> "I_DC_GR2*", unit |-> "A", sourceChannels |-> <<4, 5>>]
      [] calcIndex = 5 -> [label |-> "U_DC*", unit |-> "V", sourceChannels |-> <<0, 1>>]
      [] calcIndex = 6 -> [label |-> "F_Schlitten*", unit |-> "kN", sourceChannels |-> <<6, 7>>]

CalculateDifferential(raw, output, ch1, ch2, numPoints, coeff1, coeff2) ==
    LET data1 == raw[ch1].values
        data2 == raw[ch2].values
    IN  [i \in 1..numPoints |->
            FAdd(FMul(FNum(coeff1), At(data1, i - 1)), FMul(FNum(coeff2), At(data2, i - 1)))]

CalculateDCCurrent(raw, calc, output, ch1, ch2, diffChannelIndex, numPoints) ==
    LET data1 == raw[ch1].values
        data2 == raw[ch2].values
    IN  IF diffChannelIndex \notin DOMAIN calc THEN output
        ELSE LET diffData == calc[diffChannelIndex].values
             IN  [i \in 1..numPoints |->
                    FMul(FNum(TRAFO_STROM_MULTIPLIER),
                         FAdd(FAdd(FAbs(At(data1, i - 1)), FAbs(At(data2, i - 1))),
                              FAbs(At(diffData, i - 1))))]

CalculateDCVoltage(raw, calc, output, ch1, ch2, diffChannelIndex, numPoints) ==
    LET data1 == raw[ch1].values
        data2 == raw[ch2].values
    IN  IF diffChannelIndex \notin DOMAIN calc THEN output
        ELSE LET diffData == calc[diffChannelIndex].values
             IN  [i \in 1..numPoints |->
                    FDiv(FAdd(FAdd(FAbs(At(data1, i - 1)), FAbs(At(data2, i - 1))),
                              FAbs(At(diffData, i - 1))),
                         FNum(TRAFO_STROM_MULTIPLIER))]

CalculateForce(raw, output, ch1, ch2, numPoints) ==
    LET data1 == raw[ch1].values
        data2 == raw[ch2].values
    IN  [i \in 1..numPoints |->
            FSub(FMul(At(data1, i - 1), FORCE_COEFF_1), FMul(At(data2, i - 1), FORCE_COEFF_2))]

\* the source-channel check at the head of computeSingleCalculatedChannel
SourcesExist(raw, sourceChannels) ==
    \A k \in 1..Len(sourceChannels) : sourceChannels[k] \in DOMAIN raw

\* a faulty variant of PrimaryChannel: the last source listed
LastListedChannel(sourceChannels) == sourceChannels[Len(sourceChannels)]

\* the primary source channel: the first one listed
PrimaryChannel(sourceChannels) == sourceChannels[1]

\* new Float32Array(primaryData.time): a fresh array holding the same elements
CopyTimeArray(primaryData, calcIndex) ==
    [time |-> primaryData.time, timeRef |-> <<"calc", calcIndex>>]

\* present = FALSE: the call returned null
ComputeSingleCalculatedChannel(raw, calc, calcIndex) ==
    LET def == CalcChannelDefs(calcIndex)
        sourceChannels == def.sourceChannels
        primaryData == raw[PrimaryChannel(sourceChannels)]
        numPoints == primaryData.points
        timeArray == CopyTimeArray(primaryData, calcIndex)
        valuesArray == ZeroArray(numPoints)
        computed ==
            CASE calcIndex = 0 -> CalculateDifferential(raw, valuesArray, 0, 1, numPoints, -1, -1)
              [] calcIndex = 1 -> CalculateDifferential(raw, valuesArray, 2, 3, numPoints, -1, -1)
              [] calcIndex = 2 -> CalculateDifferential(raw, valuesArray, 4, 5, numPoints, -1, -1)
              [] calcIndex = 3 -> CalculateDCCurrent(raw, calc, valuesArray, 2, 3, 1, numPoints)
              [] calcIndex = 4 -> CalculateDCCurrent(raw, calc, valuesArray, 4, 5, 2, numPoints)
              [] calcIndex = 5 -> CalculateDCVoltage(raw, calc, valuesArray, 0, 1, 0, numPoints)
              [] calcIndex = 6 -> CalculateForce(raw, valuesArray, 6, 7, numPoints)
    IN  IF ~SourcesExist(raw, sourceChannels) THEN [present |-> FALSE]
        ELSE [present |-> TRUE,
              channel |-> [time |-> timeArray.time,
                           values |-> computed,
                           label |-> def.label,
                           unit |-> def.unit,
                           sourceChannels |-> sourceChannels,
                           points |-> numPoints,
                           downsampling |-> primaryData.downsampling,
                           timeRef |-> timeArray.timeRef]]

\* what one call of computeSingleCalculatedChannel writes with console.warn:
\* a missing source channel, or a differential channel that is not stored yet
ComputeWarnings(raw, calc, calcIndex) ==
    IF ~SourcesExist(raw, CalcChannelDefs(calcIndex).sourceChannels)
    THEN {"Source channel not found"}
    ELSE IF \/ calcIndex = 3 /\ 1 \notin DOMAIN calc
            \/ calcIndex = 4 /\ 2 \notin DOMAIN calc
            \/ calcIndex = 5 /\ 0 \notin DOMAIN calc
         THEN {"Differential channel not computed yet"}
         ELSE {}

\* a faulty variant of ComputeFrom: the first channel that cannot be computed ends the batch
RECURSIVE ComputeFromAbort(_, _, _)
ComputeFromAbort(raw, calc, calcIndex) ==
    IF calcIndex > 6 THEN calc
    ELSE LET result == ComputeSingleCalculatedChannel(raw, calc, calcIndex)
         IN  IF ~result.present THEN calc
             ELSE ComputeFromAbort(raw, (calcIndex :> result.channel) @@ calc, calcIndex + 1)

\* the loop of computeCalculatedChannels from calcIndex on (Object.entries
\* visits the integer keys 0..6 in ascending order)
RECURSIVE ComputeFrom(_, _, _)
ComputeFrom(raw, calc, calcIndex) ==
    IF calcIndex > 6 THEN calc
    ELSE LET result == ComputeSingleCalculatedChannel(raw, calc, calcIndex)
         IN  ComputeFrom(raw,
                         IF result.present THEN (calcIndex :> result.channel) @@ calc
                         ELSE calc,
                         calcIndex + 1)

ComputeCalculatedChannels(raw, calc) == ComputeFrom(raw, calc, 0)

-----------------------------------------------------------------------------
(* BinaryReader.readFile *)

\* The header is read field by field.  st = [ok, offset, md]: ok = FALSE once a
\* read has thrown, offset is the read cursor, md holds the fields read so far.
\* One field read: fieldOk is the condition under which the read does not throw.
ReadField(st, name, fieldOk, value, newOffset) ==
    IF ~st.ok THEN st
    ELSE IF ~fieldOk THEN [st EXCEPT !.ok = FALSE]
    ELSE [ok |-> TRUE, offset |-> newOffset, md |-> (name :> value) @@ st.md]

\* headerResult = this.readCSharpString(buffer, offset)
ReadHeaderString(buf, st, r) ==
    ReadField(st, "header", r.ok, r.value, r.newOffset)

\* bufferSize, startTimeBinary, maxAdcValue
ReadBufferSize(buf, st) ==
    ReadField(st, "bufferSize", InRange(buf, st.offset, 4),
              ReadUInt32LE(buf, st.offset), st.offset + 4)

ReadStartTimeBinary(buf, st) ==
    ReadField(st, "startTimeBinary", InRange(buf, st.offset, 8),
              ReadBigInt64LE(buf, st.offset), st.offset + 8)

ReadMaxAdcValue(buf, st) ==
    ReadField(st, "maxAdcValue", InRange(buf, st.offset, 2),
              ReadInt16LE(buf, st.offset), st.offset + 2)

\* the loops filling channelRanges and channelScaling
ReadChannelRanges(buf, st, r) ==
    ReadField(st, "channelRanges", r.ok, r.values, r.newOffset)

ReadChannelScaling(buf, st, r) ==
    ReadField(st, "channelScaling", r.ok, r.values, r.newOffset)

ReadSamplingInterval(buf, st) ==
    ReadField(st, "samplingInterval", InRange(buf, st.offset, 4),
              ReadUInt32LE(buf, st.offset), st.offset + 4)

\* the loops filling downsampling, units and labels
ReadDownsampling(buf, st, r) ==
    ReadField(st, "downsampling", r.ok, r.values, r.newOffset)

ReadUnits(buf, st, r) ==
    ReadField(st, "units", r.ok, r.values, r.newOffset)

ReadLabels(buf, st, r) ==
    ReadField(st, "labels", r.ok, r.values, r.newOffset)

\* a field read that needs the cursor left by the reads before it
HeaderStringAt(buf, st) ==
    ReadHeaderString(buf, st, IF st.ok THEN ReadCSharpString(buf, st.offset) ELSE st)

ChannelRangesAt(buf, st) ==
    ReadChannelRanges(buf, st, IF st.ok THEN ReadInt32Array(buf, st.offset, 8) ELSE st)

ChannelScalingAt(buf, st) ==
    ReadChannelScaling(buf, st, IF st.ok THEN ReadInt16Array(buf, st.offset, 8) ELSE st)

DownsamplingAt(buf, st) ==
    ReadDownsampling(buf, st, IF st.ok THEN ReadInt32Array(buf, st.offset, 8) ELSE st)

UnitsAt(buf, st) ==
    ReadUnits(buf, st, IF st.ok THEN ReadStringArray(buf, st.offset, 8) ELSE st)

LabelsAt(buf, st) ==
    ReadLabels(buf, st, IF st.ok THEN ReadStringArray(buf, st.offset, 8) ELSE st)

\* readFile from `let offset = 0` to the labels loop, in the order of the code
ReadHeader(buf) ==
    LabelsAt(buf,
      UnitsAt(buf,
        DownsamplingAt(buf,
          ReadSamplingInterval(buf,
            ChannelScalingAt(buf,
              ChannelRangesAt(buf,
                ReadMaxAdcValue(buf,
                  ReadStartTimeBinary(buf,
                    ReadBufferSize(buf,
                      HeaderStringAt(buf,
                        [ok |-> TRUE, offset |-> 0, md |-> << >>]))))))))))

\* readFile after readChannelData: computeCalculatedChannels and the result.
\* threw = TRUE: readFile rejected.
ReadFileData(md, data) ==
    IF ~data.ok
    THEN [threw |-> TRUE, metadata |-> md, rawData |-> << >>,
          calculatedData |-> << >>, reads |-> data.reads]
    ELSE [threw |-> FALSE, metadata |-> md, rawData |-> data.rawData,
          calculatedData |-> ComputeCalculatedChannels(data.rawData, << >>),
          reads |-> data.reads]

\* readFile after the header: this.metadata is assigned once the header and the
\* sixteen strings are read, before readChannelData is called.
ReadFileBody(buf, h) ==
    IF ~h.ok
    THEN [threw |-> TRUE, metadata |-> << >>, rawData |-> << >>,
          calculatedData |-> << >>, reads |-> << >>]
    ELSE ReadFileData(h.md, ReadChannelData(buf, h.md, h.offset, h.md.bufferSize,
                                            h.md.downsampling))

ReadFile(buf) == ReadFileBody(buf, ReadHeader(buf))

-----------------------------------------------------------------------------
(* DataProcessor (the class taking rawData, calculatedData and metadata) *)

\* channel ids are <<prefix, index>>: 'calc_3' is <<"calc_", 3>>, 'channel_2' is
\* <<"channel_", 2>>, and the legacy numeric id '5' is <<"", 5>>
HasChannel(raw, calc, channelId) ==
    IF channelId[1] = "calc_" THEN channelId[2] \in DOMAIN calc
    ELSE channelId[2] \in DOMAIN raw

LookupChannel(raw, calc, channelId) ==
    IF channelId[1] = "calc_" THEN calc[channelId[2]] ELSE raw[channelId[2]]

\* a faulty variant of GetChannelTimeStep: the channel's downsampling factor is ignored
GetChannelTimeStepBase(raw, calc, md, channelId) == FNum(md.samplingInterval)

GetChannelTimeStep(raw, calc, md, channelId) ==
    IF ~HasChannel(raw, calc, channelId) \/ LookupChannel(raw, calc, channelId).downsampling = 0
    THEN FNum(md.samplingInterval)
    ELSE FMul(FNum(md.samplingInterval), FNum(LookupChannel(raw, calc, channelId).downsampling))

RECURSIVE FindTimeLoop(_, _, _, _)
FindTimeLoop(timeArray, targetTime, left, right) ==
    IF left > right THEN left
    ELSE LET mid == (left + right) \div 2
         IN  IF FLess(At(timeArray, mid), targetTime)
             THEN FindTimeLoop(timeArray, targetTime, mid + 1, right)
             ELSE FindTimeLoop(timeArray, targetTime, left, mid - 1)

\* a faulty variant of FindTimeIndex: the index is clamped to the length of the
\* array instead of its last index
FindTimeIndexToLength(timeArray, targetTime) ==
    LET left == FindTimeLoop(timeArray, targetTime, 0, Len(timeArray) - 1)
        low == IF Len(timeArray) < left THEN Len(timeArray) ELSE left
    IN  IF low < 0 THEN 0 ELSE low

FindTimeIndex(timeArray, targetTime) ==
    LET left == FindTimeLoop(timeArray, targetTime, 0, Len(timeArray) - 1)
        low == IF Len(timeArray) - 1 < left THEN Len(timeArray) - 1 ELSE left
    IN  IF low < 0 THEN 0 ELSE low

\* the inner loop over j of one bucket starting at index i
RECURSIVE BucketScan(_, _, _, _, _, _)
BucketScan(values, i, step, endIdx, j, b) ==
    CHOOSE scanned \in
        {IF ~(j < step /\ i + j < endIdx) THEN bucket
         ELSE BucketScan(values, i, step, endIdx, j + 1,
                         [min |-> FMin(bucket.min, val), max |-> FMax(bucket.max, val),
                          sum |-> FAdd(bucket.sum, val), count |-> bucket.count + 1])
         : bucket \in {b}, val \in {At(values, i + j)}}
        : TRUE

\* a faulty variant of SignificantVariation: an absolute threshold instead of a relative one
SignificantVariationAbsolute(min, max, avg) ==
    FLess(<<1, 10>>, FAbs(FSub(max, min)))

\* Math.abs(max - min) > Math.abs(avg) * 0.1
SignificantVariation(min, max, avg) ==
    FLess(FMul(FAbs(avg), <<1, 10>>), FAbs(FSub(max, min)))

\* what one bucket pushes: its times and its values
BucketPoints(time, timeStep, min, max, avg) ==
    IF SignificantVariation(min, max, avg)
    THEN [time |-> <<time, FAdd(time, timeStep), FAdd(time, FMul(timeStep, <<1, 2>>))>>,
          values |-> <<min, max, avg>>]
    ELSE [time |-> <<time>>, values |-> <<avg>>]

\* the outer loop for (i = startIdx; i < endIdx; i += step); step >= 1 for the
\* maxPoints the model draws.  acc.buckets records, per bucket, its first
\* index, its sample count and the number of points it pushed.
RECURSIVE BucketLoop(_, _, _, _, _, _)
BucketLoop(channelData, timeStep, step, endIdx, i, acc) ==
    IF ~(i < endIdx) THEN acc
    ELSE LET b == BucketScan(channelData.values, i, step, endIdx, 0,
                             [min |-> At(channelData.values, i),
                              max |-> At(channelData.values, i),
                              sum |-> FNum(0), count |-> 0])
             avg == FDiv(b.sum, FNum(b.count))
             pts == BucketPoints(At(channelData.time, i), timeStep, b.min, b.max, avg)
         IN  BucketLoop(channelData, timeStep, step, endIdx, i + step,
                        IF b.count > 0
                        THEN [time |-> acc.time \o pts.time,
                              values |-> acc.values \o pts.values,
                              buckets |-> Append(acc.buckets,
                                  [first |-> i, count |-> b.count, pushed |-> Len(pts.time)])]
                        ELSE acc)

\* what acc is after the bucket b, with average avg, of the iteration at index i
PushBucket(channelData, timeStep, i, acc, b, avg) ==
    IF b.count > 0
    THEN CHOOSE pushed \in
             {[time |-> acc.time \o pts.time,
               values |-> acc.values \o pts.values,
               buckets |-> Append(acc.buckets,
                   [first |-> i, count |-> b.count, pushed |-> Len(pts.time)])]
              : pts \in {BucketPoints(At(channelData.time, i), timeStep, b.min, b.max, avg)}}
             : TRUE
    ELSE acc

\* one iteration of the outer loop at index i: what acc is after it.  The
\* bucket and its average are bound as values (the one element of a set).
BucketIteration(channelData, timeStep, step, endIdx, i, acc) ==
    CHOOSE after \in
        UNION {{PushBucket(channelData, timeStep, i, acc, b, avg)
                : avg \in {FDiv(b.sum, FNum(b.count))}}
               : b \in {BucketScan(channelData.values, i, step, endIdx, 0,
                                   [min |-> At(channelData.values, i),
                                    max |-> At(channelData.values, i),
                                    sum |-> FNum(0), count |-> 0])}}
        : TRUE

\* a faulty variant of RawSlice: the window includes endIdx
RawSliceInclusive(channelData, startIdx, endIdx) ==
    [time |-> Slice(channelData.time, startIdx, endIdx + 1),
     values |-> Slice(channelData.values, startIdx, endIdx + 1),
     buckets |-> << >>]

\* a faulty variant of RawSlice: the window is copied index by index up to and
\* including endIdx, reading past the end of the arrays
RawSliceIndexed(channelData, startIdx, endIdx) ==
    [time |-> [k \in 1..(endIdx - startIdx + 1) |-> At(channelData.time, startIdx + k - 1)],
     values |-> [k \in 1..(endIdx - startIdx + 1) |-> At(channelData.values, startIdx + k - 1)],
     buckets |-> << >>]

\* the totalPoints <= maxPoints branch: the window itself
RawSlice(channelData, startIdx, endIdx) ==
    [time |-> Slice(channelData.time, startIdx, endIdx),
     values |-> Slice(channelData.values, startIdx, endIdx),
     buckets |-> << >>]

\* Math.floor(totalPoints / maxPoints), evaluated when totalPoints > maxPoints.
\* For maxPoints = 0 the quotient is Infinity: the first bucket then runs to
\* endIdx and i += step leaves the window; the stride totalPoints stands for it.
\* a faulty variant of Step: every bucket holds one sample
StepOfOne(totalPoints, maxPoints) == 1

Step(totalPoints, maxPoints) ==
    IF maxPoints > 0 THEN totalPoints \div maxPoints
    ELSE IF maxPoints = 0 THEN totalPoints
    ELSE IF totalPoints >= 0 THEN -((totalPoints + (-maxPoints) - 1) \div (-maxPoints))
    ELSE (-totalPoints) \div (-maxPoints)

\* the call returns: its bucket loop is not entered with a stride below 1
\* (`i += step` with step <= 0 never reaches endIdx)
Returns(raw, calc, channelId, startTime, endTime, maxPoints) ==
    IF ~HasChannel(raw, calc, channelId) \/ maxPoints >= 0 THEN TRUE
    ELSE FindTimeIndex(LookupChannel(raw, calc, channelId).time, startTime)
             >= FindTimeIndex(LookupChannel(raw, calc, channelId).time, endTime)

GetResampledData(raw, calc, md, channelId, startTime, endTime, maxPoints) ==
    IF ~HasChannel(raw, calc, channelId)
    THEN [time |-> << >>, values |-> << >>, buckets |-> << >>]
    ELSE LET channelData == LookupChannel(raw, calc, channelId)
             startIdx == FindTimeIndex(channelData.time, startTime)
             endIdx == FindTimeIndex(channelData.time, endTime)
             totalPoints == endIdx - startIdx
             step == Step(totalPoints, maxPoints)
         IN  IF totalPoints <= maxPoints
             THEN RawSlice(channelData, startIdx, endIdx)
             ELSE BucketLoop(channelData, GetChannelTimeStep(raw, calc, md, channelId),
                             step, endIdx, startIdx,
                             [time |-> << >>, values |-> << >>, buckets |-> << >>])

\* Math.sqrt is kept symbolic: the square root of x is the pair <<"sqrt", x>>
Sqrt(x) == <<"sqrt", x>>

\* the loop of getChannelStatistics over values[i], i = 0 .. n-1
RECURSIVE StatisticsLoop(_, _, _)
StatisticsLoop(values, i, acc) ==
    IF i >= Len(values) THEN acc
    ELSE LET val == At(values, i)
         IN  StatisticsLoop(values, i + 1,
                 [min |-> FMin(acc.min, val),
                  max |-> FMax(acc.max, val),
                  sum |-> FAdd(acc.sum, val),
                  sumSquares |-> FAdd(acc.sumSquares, FMul(val, val))])

\* getChannelStatistics(channelId); << >> stands for the null it returns for an
\* unknown channel
GetChannelStatistics(raw, calc, channelId) ==
    IF ~HasChannel(raw, calc, channelId) THEN << >>
    ELSE LET channelData == LookupChannel(raw, calc, channelId)
             values == channelData.values
             n == FNum(Len(values))
             acc == StatisticsLoop(values, 0,
                        [min |-> At(values, 0), max |-> At(values, 0),
                         sum |-> FNum(0), sumSquares |-> FNum(0)])
             mean == FDiv(acc.sum, n)
             variance == FSub(FDiv(acc.sumSquares, n), FMul(mean, mean))
         IN  [min |-> acc.min,
              max |-> acc.max,
              mean |-> mean,
              stdDev |-> Sqrt(variance),
              rms |-> Sqrt(FDiv(acc.sumSquares, n)),
              count |-> Len(values),
              unit |-> channelData.unit,
              label |-> channelData.label]

-----------------------------------------------------------------------------
(* The files the model decodes.  A file is written field by field in the     *)
(* layout readFile expects and may be cut short.                             *)

EncodeInt16(n) == LET u == IF n < 0 THEN n + 65536 ELSE n IN <<u % 256, u \div 256>>

EncodeInt32(n) == <<n % 256, (n \div 256) % 256, (n \div 65536) % 256, (n \div 16777216) % 256>>

RECURSIVE EncodeLength(_)
EncodeLength(n) == IF n < 128 THEN <<n>> ELSE <<128 + (n % 128)>> \o EncodeLength(n \div 128)

EncodeString(str) == EncodeLength(Len(str)) \o str

RECURSIVE Concat(_)
Concat(seqs) == IF seqs = << >> THEN << >> ELSE Head(seqs) \o Concat(Tail(seqs))

\* the downsampling factors of the eight channels, from two factors: the pairs
\* (0,1) and (6,7) mix them, the pairs (2,3) and (4,5) do not
Downsamplings(dsA, dsB) == <<dsA, dsB, dsA, dsA, dsB, dsB, dsA, dsB>>

\* number of samples in the sample region
SampleCount(bufferSize, downsampling) ==
    Cardinality({jc \in (0..(bufferSize - 1)) \X (1..8) : jc[1] % downsampling[jc[2]] = 0})

\* the k-th sample (k = 0, 1, ...) of the sample region
\*   "ramp"  1, 2, 3, ...          every position holds a different sample
\*   "near"  20, 21, 20, 21, ...   buckets vary by less than a tenth of their average
\*   "flat"  7, 7, 7, ...          constant buckets
\*   "sign"  -5, 6, -7, 8, ...     both signs, with a negative maxAdcValue
\*   "zero"  0, 1, 0, 3, ...       with maxAdcValue 0
\*   "mirror" 5 in the first eight positions, -5 in the next eight, ...: with
\*           all factors 1 every channel alternates between +v and -v
SampleAt(pattern, k) ==
    CASE pattern = "ramp" -> k + 1
      [] pattern = "near" -> 20 + (k % 2)
      [] pattern = "flat" -> 7
      [] pattern = "sign" -> IF k % 2 = 0 THEN -(k + 5) ELSE k + 5
      [] pattern = "zero" -> IF k % 2 = 0 THEN 0 ELSE k
      [] pattern = "mirror" -> IF (k \div 8) % 2 = 0 THEN 5 ELSE -5

Patterns == {"ramp", "near", "flat", "sign", "zero", "mirror"}

\* the maxAdcValue written to the header
FileMaxAdcValue(pattern) ==
    CASE pattern = "sign" -> -2
      [] pattern = "zero" -> 0
      [] OTHER -> 4

\* range codes (99 is not in the table) and scaling factors written to every file
FileChannelRanges == <<6, 7, 8, 5, 6, 99, 6, 6>>

FileChannelScaling == <<4, 8, -4, 2, 4, 4, 4, 8>>

FileHeaderBytes(bufferSize, downsampling, pattern) ==
    Concat(<<EncodeString(<<66, 73, 78>>),
             EncodeInt32(bufferSize),
             <<0, 0, 0, 0, 0, 0, 0, 0>>,
             EncodeInt16(FileMaxAdcValue(pattern)),
             Concat([c \in 1..8 |-> EncodeInt32(FileChannelRanges[c])]),
             Concat([c \in 1..8 |-> EncodeInt16(FileChannelScaling[c])]),
             EncodeInt32(1000),
             Concat([c \in 1..8 |-> EncodeInt32(downsampling[c])]),
             Concat([c \in 1..8 |-> EncodeString(IF c % 2 = 1 THEN <<86>> ELSE << >>)]),
             Concat([c \in 1..8 |-> EncodeString(<<76, 47 + c>>)])>>)

FileBytes(bufferSize, downsampling, pattern) ==
    FileHeaderBytes(bufferSize, downsampling, pattern)
    \o Concat([k \in 1..SampleCount(bufferSize, downsampling) |->
                  EncodeInt16(SampleAt(pattern, k - 1))])

\* the lengths a file of fullLength bytes with a header of headerLength bytes is
\* cut to: inside the sample region, inside the last label, inside the fixed
\* header fields, and to nothing
CutLengths(fullLength, headerLength) ==
    {fullLength, fullLength - 1, fullLength - 3, headerLength - 1, 60, 0}

Files ==
    UNION {
        LET downsampling == Downsamplings(dsA, dsB)
            full == FileBytes(bufferSize, downsampling, pattern)
            headerLength == Len(FileHeaderBytes(bufferSize, downsampling, pattern))
        IN  {SubSeq(full, 1, n) :
                n \in IF pattern = "ramp" THEN CutLengths(Len(full), headerLength)
                      ELSE {Len(full)}}
        : bufferSize \in 0..MaxBufferSize, dsA \in 1..MaxDownsampling,
          dsB \in 1..MaxDownsampling, pattern \in Patterns}

ChannelIds ==
    ({"calc_"} \X (0..7)) \cup ({"channel_"} \X (0..8)) \cup {<<"", 3>>}

\* maxPoints of a resample request
RequestedMaxPoints == (-1)..MaxMaxPoints

\* start and end of a resample request, in nanoseconds
StartTimes == {FNum(0), FNum(1000)}

EndTimes == {FNum(1000 * k) : k \in 0..MaxBufferSize}

-----------------------------------------------------------------------------
Init ==
    /\ pc = "constructed"
    /\ buffer = << >>
    /\ metadata = << >>
    /\ rawData = << >>
    /\ calculatedData = << >>
    /\ reads = << >>
    /\ resampled = << >>
    /\ call = << >>
    /\ earlier = << >>

\* await binaryReader.readFile() on a freshly constructed reader
DoReadFile ==
    /\ pc = "constructed"
    /\ \E buf \in Files :
       \E r \in {ReadFile(buf)} :
           /\ buffer' = buf
           /\ pc' = IF r.threw THEN "failed" ELSE "decoded"
           /\ metadata' = r.metadata
           /\ rawData' = r.rawData
           /\ calculatedData' = r.calculatedData
           /\ reads' = r.reads
    /\ UNCHANGED <<resampled, call, earlier>>

\* a faulty variant of ResampleRequest: the window is cut out of the channel's
\* own value array (splice where the code uses slice)
ResampleRequestInPlace(channelIds) ==
    /\ pc = "decoded"
    /\ resampled = << >>
    /\ \E channelId \in channelIds, startTime \in StartTimes, endTime \in EndTimes,
          maxPoints \in RequestedMaxPoints :
           /\ Returns(rawData, calculatedData, channelId, startTime, endTime, maxPoints)
           /\ resampled' =
                  [request |-> [channelId |-> channelId, startTime |-> startTime,
                                endTime |-> endTime, maxPoints |-> maxPoints],
                   result |-> GetResampledData(rawData, calculatedData, metadata,
                                               channelId, startTime, endTime, maxPoints)]
           /\ rawData' =
                  IF channelId[1] # "calc_" /\ channelId[2] \in DOMAIN rawData
                  THEN [rawData EXCEPT ![channelId[2]].values =
                           Slice(@, 0, FindTimeIndex(rawData[channelId[2]].time, startTime))]
                  ELSE rawData
    /\ UNCHANGED <<pc, buffer, metadata, calculatedData, reads, call, earlier>>

\* processor.getResampledData(channelId, startTime, endTime, maxPoints) on the
\* DataProcessor built from a reader whose readFile resolved, for a channel id
\* out of channelIds
ResampleRequest(channelIds) ==
    /\ pc = "decoded"
    /\ resampled = << >>
    /\ \E channelId \in channelIds, startTime \in StartTimes, endTime \in EndTimes,
          maxPoints \in RequestedMaxPoints :
           /\ Returns(rawData, calculatedData, channelId, startTime, endTime, maxPoints)
           /\ resampled' =
                  [request |-> [channelId |-> channelId, startTime |-> startTime,
                                endTime |-> endTime, maxPoints |-> maxPoints],
                   result |-> GetResampledData(rawData, calculatedData, metadata,
                                               channelId, startTime, endTime, maxPoints)]
    /\ UNCHANGED <<pc, buffer, metadata, rawData, calculatedData, reads, call, earlier>>

DoGetResampledData == ResampleRequest(ChannelIds)

\* res.json({time: data.time, values: data.values, ...}): the request is answered
SendResponse ==
    /\ resampled # << >>
    /\ resampled' = << >>
    /\ UNCHANGED <<pc, buffer, metadata, rawData, calculatedData, reads, call, earlier>>

Next == DoReadFile \/ DoGetResampledData \/ SendResponse

Spec == Init /\ [][Next]_vars

\* decoding alone: the reader from its construction to the end of readFile
NextDecode == DoReadFile

SpecDecode == Init /\ [][NextDecode]_vars

-----------------------------------------------------------------------------
(* computeCalculatedChannels on its own: a reader whose rawData holds any     *)
(* subset of the eight channels of a decoded file                             *)

Restrict(f, P) == [c \in P |-> f[c]]

DeriveFiles ==
    {FileBytes(2, Downsamplings(1, d), "ramp") : d \in 1..MaxDownsampling}

InitDerive ==
    /\ pc = "reading"
    /\ buffer \in DeriveFiles
    /\ \E r \in {ReadFile(buffer)} :
           /\ metadata = r.metadata
           /\ rawData \in {Restrict(r.rawData, P) : P \in SUBSET Channels}
           /\ reads = r.reads
    /\ calculatedData = << >>
    /\ resampled = << >>
    /\ call = << >>
    /\ earlier = << >>

DoComputeCalculatedChannels ==
    /\ pc = "reading"
    /\ calculatedData' = ComputeCalculatedChannels(rawData, calculatedData)
    /\ pc' = "decoded"
    /\ UNCHANGED <<buffer, metadata, rawData, reads, resampled, call, earlier>>

NextDerive == DoComputeCalculatedChannels

SpecDerive == InitDerive /\ [][NextDerive]_vars

-----------------------------------------------------------------------------
(* readCSharpString on its own: any short buffer, read at offset 0 or 1       *)

\* byte values of the buffers: 0, 1 and 8 end a length prefix (lengths 0, 1, 8;
\* as the fifth prefix byte 8 sets bit 31), 128 and 129 continue it
StringBytes == {0, 1, 8, 128, 129}

RECURSIVE ByteSeqs(_)
ByteSeqs(n) ==
    IF n = 0 THEN {<< >>}
    ELSE LET shorter == ByteSeqs(n - 1)
         IN  shorter \cup {Append(b, x) : b \in {q \in shorter : Len(q) = n - 1},
                                          x \in StringBytes}

StringBuffers == ByteSeqs(MaxStringBytes)

StringOffsets == {0, 1}

InitString ==
    /\ pc = "string"
    /\ buffer \in StringBuffers
    /\ call \in {[offset |-> o] : o \in StringOffsets}
    /\ metadata = << >>
    /\ rawData = << >>
    /\ calculatedData = << >>
    /\ reads = << >>
    /\ resampled = << >>
    /\ earlier = << >>

\* this.readCSharpString(buffer, offset)
DoReadCSharpString ==
    /\ pc = "string"
    /\ call' = [offset |-> call.offset, result |-> ReadCSharpString(buffer, call.offset)]
    /\ pc' = "stringRead"
    /\ UNCHANGED <<buffer, metadata, rawData, calculatedData, reads, resampled, earlier>>

NextString == DoReadCSharpString

SpecString == InitString /\ [][NextString]_vars

-----------------------------------------------------------------------------
(* convertBinaryTimestampToUnixMs on its own                                  *)

\* a * m for a small factor m, digit by digit with carry
RECURSIVE BigMulFrom(_, _, _, _)
BigMulFrom(a, m, k, carry) ==
    IF k > 8 THEN << >>
    ELSE <<(a[k] * m + carry) % 256>> \o BigMulFrom(a, m, k + 1, (a[k] * m + carry) \div 256)

BigMul(a, m) == BigMulFrom(a, m, 1, 0)

\* values of Date.now(): 1700000000000 and 1800000000000
Nows == {<<0, 104, 229, 207, 139, 1, 0, 0>>, <<0, 80, 92, 24, 163, 1, 0, 0>>}

\* the first tick count whose quotient is not below now + one year
TickLimit(now) == BigAdd(DotNetEpochTicks, BigMul(BigAdd(now, YearMs), 10000))

\* tick counts (62 bits): 0, around the epoch offset, the first milliseconds
\* after it, around the one-year-ahead limit, and the largest
TickValues(now) ==
    {BigOf(0), BigSub(DotNetEpochTicks, BigOf(1)), <<255, 255, 255, 255, 255, 255, 255, 63>>}
    \cup {BigAdd(DotNetEpochTicks, BigOf(10000 * q + r)) :
              q \in 0..MaxUnixMs, r \in {0, 1, 9999}}
    \cup {BigSub(TickLimit(now), BigOf(d)) : d \in {10000, 1, 0}}
    \cup {BigAdd(TickLimit(now), BigOf(1))}

\* the top two bits of DateTime.ToBinary(): the kind flags; 2 and 3 make the
\* 64-bit value negative
KindBits == 0..3

WithKind(ticks, kind) == [ticks EXCEPT ![8] = @ + 64 * kind]

InitTimestamp ==
    /\ pc = "timestamp"
    /\ \E now \in Nows, kind \in KindBits :
           \E ticks \in TickValues(now) :
               call = [startTimeBinary |-> WithKind(ticks, kind), now |-> now]
    /\ buffer = << >>
    /\ metadata = << >>
    /\ rawData = << >>
    /\ calculatedData = << >>
    /\ reads = << >>
    /\ resampled = << >>
    /\ earlier = << >>

\* this.convertBinaryTimestampToUnixMs(startTimeBinary)
DoConvertBinaryTimestamp ==
    /\ pc = "timestamp"
    /\ call' = [startTimeBinary |-> call.startTimeBinary, now |-> call.now,
                result |-> ConvertBinaryTimestampToUnixMs(call.startTimeBinary, call.now)]
    /\ pc' = "timestampConverted"
    /\ UNCHANGED <<buffer, metadata, rawData, calculatedData, reads, resampled, earlier>>

NextTimestamp == DoConvertBinaryTimestamp

SpecTimestamp == InitTimestamp /\ [][NextTimestamp]_vars

-----------------------------------------------------------------------------
(* Repeated requests to one DataProcessor: resample requests, with statistics *)
(* requests between them, on two channels of a decoded file.  Each handler    *)
(* runs to its response without yielding, so the calls never overlap.         *)

RepeatFiles ==
    {FileBytes(MaxBufferSize, Downsamplings(1, d), "ramp") : d \in 1..MaxDownsampling}

RepeatChannelIds == {<<"channel_", 1>>, <<"calc_", 0>>}

InitRepeat ==
    /\ pc = "decoded"
    /\ buffer \in RepeatFiles
    /\ \E r \in {ReadFile(buffer)} :
           /\ metadata = r.metadata
           /\ rawData = r.rawData
           /\ calculatedData = r.calculatedData
           /\ reads = r.reads
    /\ resampled = << >>
    /\ call = << >>
    /\ earlier = << >>

DoResampleAgain == ResampleRequest(RepeatChannelIds)

\* res.json(...) to a client that keeps the answer it receives
KeepResponse ==
    /\ resampled # << >>
    /\ earlier' = resampled
    /\ resampled' = << >>
    /\ call' = << >>
    /\ UNCHANGED <<pc, buffer, metadata, rawData, calculatedData, reads>>

\* this.processor.getChannelStatistics(channelId)
DoGetChannelStatistics ==
    /\ pc = "decoded"
    /\ resampled = << >>
    /\ \E channelId \in RepeatChannelIds \cup {<<"channel_", 8>>} :
           call' = [channelId |-> channelId,
                    result |-> GetChannelStatistics(rawData, calculatedData, channelId)]
    /\ UNCHANGED <<pc, buffer, metadata, rawData, calculatedData, reads, resampled, earlier>>

NextRepeat == DoResampleAgain \/ SendResponse \/ KeepResponse \/ DoGetChannelStatistics

SpecRepeat == InitRepeat /\ [][NextRepeat]_vars

-----------------------------------------------------------------------------
(* computeCalculatedChannels one loop iteration at a time: call.position is   *)
(* the position in Object.entries(calcChannelDefs) of the entry the loop      *)
(* visits next.                                                               *)

\* a faulty variant of EntryAt: the entries are visited in descending key order
EntryAtDescending(position) == 7 - position

\* the key of the entry at a position (1..7): Object.entries lists the integer
\* keys 0..6 in ascending order
EntryAt(position) == position - 1

InitDeriveSteps ==
    /\ pc = "deriving"
    /\ buffer \in DeriveFiles
    /\ \E r \in {ReadFile(buffer)} :
           /\ metadata = r.metadata
           /\ rawData \in {Restrict(r.rawData, P) : P \in SUBSET Channels}
           /\ reads = r.reads
    /\ calculatedData = << >>
    /\ resampled = << >>
    /\ call = [position |-> 1]
    /\ earlier = << >>

\* one iteration of the loop: computeSingleCalculatedChannel and the store of
\* its result when it is not null
DoComputeSingle ==
    /\ pc = "deriving"
    /\ call.position <= 7
    /\ \E result \in {ComputeSingleCalculatedChannel(rawData, calculatedData,
                                                     EntryAt(call.position))} :
           calculatedData' =
               IF result.present
               THEN (EntryAt(call.position) :> result.channel) @@ calculatedData
               ELSE calculatedData
    /\ call' = [position |-> call.position + 1]
    /\ pc' = IF call.position = 7 THEN "decoded" ELSE "deriving"
    /\ UNCHANGED <<buffer, metadata, rawData, reads, resampled, earlier>>

NextDeriveSteps == DoComputeSingle

SpecDeriveSteps == InitDeriveSteps /\ [][NextDeriveSteps]_vars

-----------------------------------------------------------------------------
(* getResampledData one loop iteration at a time, for the requests the routes *)
(* /api/data/:channelId and /api/data/bulk pass on: an existing channel, and  *)
(* an integer maxPoints that may be zero or negative (parseInt of the query   *)
(* parameter, or the number of the JSON body).  call holds the request and    *)
(* the locals i, step, endIdx and the arrays pushed so far.                   *)

LoopMaxPoints == (-2)..MaxMaxPoints

\* i += step, with i followed down to -MaxLoopBelow only: the loop test
\* i < endIdx and the reads at a negative index are the same for every i < 0.
\* call.odd is the parity of the number of iterations run, so that an
\* iteration at the lowest index followed is still a step of the loop.
NextIndex(i, step) == IF i + step < -MaxLoopBelow THEN -MaxLoopBelow ELSE i + step

InitLoop ==
    /\ pc = "requested"
    /\ buffer \in RepeatFiles
    /\ \E r \in {ReadFile(buffer)} :
           /\ metadata = r.metadata
           /\ rawData = r.rawData
           /\ calculatedData = r.calculatedData
           /\ reads = r.reads
    /\ resampled = << >>
    /\ \E channelId \in RepeatChannelIds, startTime \in StartTimes, endTime \in EndTimes,
          maxPoints \in LoopMaxPoints :
           call = [channelId |-> channelId, startTime |-> startTime, endTime |-> endTime,
                   maxPoints |-> maxPoints, i |-> 0, step |-> 0, endIdx |-> 0,
                   odd |-> FALSE,
                   acc |-> [time |-> << >>, values |-> << >>, buckets |-> << >>]]
    /\ earlier = << >>

\* the request as the answer records it
LoopRequest ==
    [channelId |-> call.channelId, startTime |-> call.startTime,
     endTime |-> call.endTime, maxPoints |-> call.maxPoints]

\* getResampledData from its entry to the head of the bucket loop, or to the
\* return of the empty series or of the slice
DoEnterGetResampledData ==
    /\ pc = "requested"
    /\ IF ~HasChannel(rawData, calculatedData, call.channelId)
       THEN /\ resampled' = [request |-> LoopRequest,
                             result |-> [time |-> << >>, values |-> << >>, buckets |-> << >>]]
            /\ pc' = "returned"
            /\ call' = call
       ELSE \E channelData \in {LookupChannel(rawData, calculatedData, call.channelId)} :
            \E startIdx \in {FindTimeIndex(channelData.time, call.startTime)} :
            \E endIdx \in {FindTimeIndex(channelData.time, call.endTime)} :
                IF endIdx - startIdx <= call.maxPoints
                THEN /\ resampled' = [request |-> LoopRequest,
                                      result |-> RawSlice(channelData, startIdx, endIdx)]
                     /\ pc' = "returned"
                     /\ call' = call
                ELSE /\ call' = [call EXCEPT !.i = startIdx, !.endIdx = endIdx,
                                             !.step = Step(endIdx - startIdx, call.maxPoints)]
                     /\ pc' = "looping"
                     /\ resampled' = resampled
    /\ UNCHANGED <<buffer, metadata, rawData, calculatedData, reads, earlier>>

\* one iteration of for (let i = startIdx; i < endIdx; i += step)
DoBucketIteration ==
    /\ pc = "looping"
    /\ call.i < call.endIdx
    /\ \E channelData \in {LookupChannel(rawData, calculatedData, call.channelId)},
          timeStep \in {GetChannelTimeStep(rawData, calculatedData, metadata, call.channelId)} :
         \E after \in {BucketIteration(channelData, timeStep, call.step, call.endIdx,
                                       call.i, call.acc)} :
            call' = [call EXCEPT !.acc = after, !.i = NextIndex(call.i, call.step),
                                 !.odd = ~call.odd]
    /\ UNCHANGED <<pc, buffer, metadata, rawData, calculatedData, reads, resampled, earlier>>

\* the loop test fails: return { time: resampledTime, values: resampledValues }
DoReturnResampled ==
    /\ pc = "looping"
    /\ ~(call.i < call.endIdx)
    /\ resampled' = [request |-> LoopRequest, result |-> call.acc]
    /\ pc' = "returned"
    /\ UNCHANGED <<buffer, metadata, rawData, calculatedData, reads, call, earlier>>

NextLoop == DoEnterGetResampledData \/ DoBucketIteration \/ DoReturnResampled

SpecLoop == InitLoop /\ [][NextLoop]_vars

\* the call is synchronous code that runs on until it returns
SpecLoopFair == SpecLoop /\ WF_vars(NextLoop)

-----------------------------------------------------------------------------
(* convertAdcToPhysical on its own: one call per behaviour, with range codes  *)
(* inside and outside the table.  channelRange is a 32-bit integer of the     *)
(* header (readInt32LE), rawAdc and maxAdcValue are 16-bit, channelScaling is *)
(* 16-bit.                                                                    *)

MaxRangeCode == 15

RangeCodes == ((-2)..MaxRangeCode) \cup {99, 2147483647, -2147483647}

RawAdcs == {-3, 0, 1, 5}

MaxAdcValues == {-2, 0, 4}

ChannelScalings == {-4, 0, 8}

InitConvert ==
    /\ pc = "convert"
    /\ \E rawAdc \in RawAdcs, maxAdcValue \in MaxAdcValues,
          channelRange \in RangeCodes, channelScaling \in ChannelScalings :
           call = [rawAdc |-> rawAdc, maxAdcValue |-> maxAdcValue,
                   channelRange |-> channelRange, channelScaling |-> channelScaling]
    /\ buffer = << >>
    /\ metadata = << >>
    /\ rawData = << >>
    /\ calculatedData = << >>
    /\ reads = << >>
    /\ resampled = << >>
    /\ earlier = << >>

\* convertAdcToPhysical(rawAdc, maxAdcValue, channelRange, channelScaling)
DoConvertAdcToPhysical ==
    /\ pc = "convert"
    /\ call' = [rawAdc |-> call.rawAdc, maxAdcValue |-> call.maxAdcValue,
                channelRange |-> call.channelRange, channelScaling |-> call.channelScaling,
                result |-> ConvertAdcToPhysical(call.rawAdc, call.maxAdcValue,
                                                call.channelRange, call.channelScaling)]
    /\ pc' = "converted"
    /\ UNCHANGED <<buffer, metadata, rawData, calculatedData, reads, resampled, earlier>>

NextConvert == DoConvertAdcToPhysical

SpecConvert == InitConvert /\ [][NextConvert]_vars

-----------------------------------------------------------------------------
(* findTimeIndex on its own: one call per behaviour, on a non-decreasing time *)
(* array and a target that is a time between, at, below or above the array's  *)
(* entries, an infinity, or the NaN parseFloat gives for an unparsable        *)
(* `start` or `end` query parameter.                                          *)

\* the arrays of n times drawn from 0, 1000 and 2000 ns
RECURSIVE TimesOfLength(_)
TimesOfLength(n) ==
    IF n = 0 THEN {<< >>}
    ELSE {Append(s, FNum(1000 * k)) : s \in TimesOfLength(n - 1), k \in 0..2}

NonDecreasing(timeArray) ==
    \A i \in 1..(Len(timeArray) - 1) : FLeq(timeArray[i], timeArray[i + 1])

TimeArrays == {timeArray \in UNION {TimesOfLength(n) : n \in 1..MaxTimeLen} : NonDecreasing(timeArray)}

TargetTimes == {FNum(500 * k) : k \in (-1)..5} \cup {PosInf, NegInf, NaN}

InitFindTime ==
    /\ pc = "find"
    /\ \E timeArray \in TimeArrays, targetTime \in TargetTimes :
           call = [timeArray |-> timeArray, targetTime |-> targetTime]
    /\ buffer = << >>
    /\ metadata = << >>
    /\ rawData = << >>
    /\ calculatedData = << >>
    /\ reads = << >>
    /\ resampled = << >>
    /\ earlier = << >>

\* this.findTimeIndex(timeArray, targetTime)
DoFindTimeIndex ==
    /\ pc = "find"
    /\ call' = [timeArray |-> call.timeArray, targetTime |-> call.targetTime,
                result |-> FindTimeIndex(call.timeArray, call.targetTime)]
    /\ pc' = "found"
    /\ UNCHANGED <<buffer, metadata, rawData, calculatedData, reads, resampled, earlier>>

NextFindTime == DoFindTimeIndex

SpecFindTime == InitFindTime /\ [][NextFindTime]_vars

-----------------------------------------------------------------------------
(* Properties *)

Request == resampled.request
Result == resampled.result
RequestedChannel == LookupChannel(rawData, calculatedData, Request.channelId)
StartIdx == FindTimeIndex(RequestedChannel.time, Request.startTime)
EndIdx == FindTimeIndex(RequestedChannel.time, Request.endTime)
Answering == resampled # << >> /\ HasChannel(rawData, calculatedData, Request.channelId)
ReductionPath == Answering /\ EndIdx - StartIdx > Request.maxPoints

\* C1: after a successful decode every raw channel's `points` equals
\* floor(bufferSize / downsamplingFactor)
C1_PointsAreFloor ==
    pc = "decoded" =>
        \A c \in Channels :
            rawData[c].points = metadata.bufferSize \div metadata.downsampling[c + 1]

\* C2: for every raw channel the time and the value sequence have the same
\* length, and that length is the channel's `points`
C2_TimeValuesSameLength ==
    pc = "decoded" =>
        \A c \in Channels :
            /\ Len(rawData[c].time) = Len(rawData[c].values)
            /\ Len(rawData[c].values) = rawData[c].points

\* the (row, channel) pairs at which the file holds a sample
C3_Selected ==
    {jc \in (0..(metadata.bufferSize - 1)) \X Channels :
        jc[1] % metadata.downsampling[jc[2] + 1] = 0}

\* number of rows below `row` that hold a sample of channel c
RECURSIVE C3_RowsBelow(_, _)
C3_RowsBelow(row, c) ==
    IF row = 0 THEN 0
    ELSE C3_RowsBelow(row - 1, c)
         + (IF (row - 1) % metadata.downsampling[c + 1] = 0 THEN 1 ELSE 0)

RECURSIVE C3_SumRowsBelow(_, _)
C3_SumRowsBelow(row, c) ==
    IF c < 0 THEN 0 ELSE C3_RowsBelow(row, c) + C3_SumRowsBelow(row, c - 1)

\* number of samples that precede the one of (row, channel) in row-major order
C3_Before(row, channel) ==
    C3_SumRowsBelow(row, 7)
    + Cardinality({c \in 0..(channel - 1) : row % metadata.downsampling[c + 1] = 0})

\* the sample region is the tail of a decoded file
C3_RegionStart == Len(buffer) - 2 * C3_Before(metadata.bufferSize, 0)

\* C3: the sample region is consumed in row-major interleave order, one 2-byte
\* sample at the cursor exactly for the pairs with row mod factor = 0, and the
\* k-th stored value of a channel is the conversion of the sample of row
\* k * factor of that channel
C3_InterleaveOrder ==
    pc = "decoded" =>
        /\ Len(reads) = Cardinality(C3_Selected)
        /\ \A k \in 1..Len(reads) :
               /\ <<reads[k].row, reads[k].channel>> \in C3_Selected
               /\ C3_Before(reads[k].row, reads[k].channel) = k - 1
               /\ reads[k].offset = C3_RegionStart + 2 * (k - 1)
        /\ \A c \in Channels :
               \A k \in 0..(Len(rawData[c].values) - 1) :
                   rawData[c].values[k + 1] =
                       ConvertAdcToPhysical(
                           ReadInt16LE(buffer,
                               C3_RegionStart
                               + 2 * C3_Before(k * metadata.downsampling[c + 1], c)),
                           metadata.maxAdcValue,
                           metadata.channelRanges[c + 1],
                           metadata.channelScaling[c + 1])

C3_Witness ==
    /\ pc = "decoded"
    /\ metadata.bufferSize = 5
    /\ metadata.downsampling[1] = 2
    /\ metadata.downsampling[2] = 1
    /\ Len(rawData[0].values) = 2
    /\ rawData[0].values[1] # rawData[0].values[2]
    /\ Len(rawData[1].values) = 5

\* C4: when endIdx - startIdx <= maxPoints the result is exactly
\* time[startIdx..endIdx) and values[startIdx..endIdx), element for element
C4_IdentitySlice ==
    (Answering /\ EndIdx - StartIdx <= Request.maxPoints) =>
        LET n == IF EndIdx > StartIdx THEN EndIdx - StartIdx ELSE 0
        IN  /\ Len(Result.time) = n
            /\ Len(Result.values) = n
            /\ \A k \in 1..n :
                   /\ Result.time[k] = RequestedChannel.time[StartIdx + k]
                   /\ Result.values[k] = RequestedChannel.values[StartIdx + k]

C4_Witness ==
    /\ Answering
    /\ EndIdx - StartIdx = 2
    /\ Request.maxPoints = 2
    /\ StartIdx = 1
    /\ Len(Result.values) = 2

\* the samples of a bucket, and its minimum, maximum and average
C5_Window(b) == b.first .. (b.first + b.count - 1)

C5_Value(i) == RequestedChannel.values[i + 1]

C5_Min(b) ==
    CHOOSE m \in {C5_Value(i) : i \in C5_Window(b)} :
        \A i \in C5_Window(b) : FLeq(m, C5_Value(i))

C5_Max(b) ==
    CHOOSE m \in {C5_Value(i) : i \in C5_Window(b)} :
        \A i \in C5_Window(b) : FLeq(C5_Value(i), m)

RECURSIVE C5_Sum(_, _)
C5_Sum(first, count) ==
    IF count = 0 THEN FNum(0) ELSE FAdd(C5_Value(first), C5_Sum(first + 1, count - 1))

C5_Avg(b) == FDiv(C5_Sum(b.first, b.count), FNum(b.count))

\* |max - min| > 0.1 * |avg|
C5_Significant(b) ==
    FLess(FMul(<<1, 10>>, FAbs(C5_Avg(b))), FAbs(FSub(C5_Max(b), C5_Min(b))))

\* number of points pushed by the buckets before the q-th
RECURSIVE C5_Offset(_)
C5_Offset(q) == IF q = 1 THEN 0 ELSE C5_Offset(q - 1) + Result.buckets[q - 1].pushed

\* C5: on the reduction path a bucket pushes the three values (min, max, avg)
\* iff |max - min| > 0.1 * |avg| and otherwise the one point (t, avg), t being
\* its first timestamp; a bucket of equal values v pushes the one value v
C5_BucketEmission ==
    ReductionPath =>
        /\ EndIdx > StartIdx => Len(Result.buckets) >= 1
        /\ Len(Result.values) = C5_Offset(Len(Result.buckets) + 1)
        /\ Len(Result.time) = Len(Result.values)
        /\ \A q \in 1..Len(Result.buckets) :
               LET b == Result.buckets[q]
                   o == C5_Offset(q)
               IN  /\ b.count >= 1
                   /\ b.pushed = (IF C5_Significant(b) THEN 3 ELSE 1)
                   /\ C5_Significant(b) =>
                          /\ Result.values[o + 1] = C5_Min(b)
                          /\ Result.values[o + 2] = C5_Max(b)
                          /\ Result.values[o + 3] = C5_Avg(b)
                   /\ ~C5_Significant(b) =>
                          /\ Result.values[o + 1] = C5_Avg(b)
                          /\ Result.time[o + 1] = RequestedChannel.time[b.first + 1]
                   /\ (\A i \in C5_Window(b) : C5_Value(i) = C5_Value(b.first)) =>
                          /\ b.pushed = 1
                          /\ Result.values[o + 1] = C5_Value(b.first)

C5_Witness ==
    /\ ReductionPath
    /\ \E q \in 1..Len(Result.buckets) :
           /\ Result.buckets[q].count >= 2
           /\ Result.buckets[q].pushed = 3
           /\ Result.values[C5_Offset(q) + 1] # Result.values[C5_Offset(q) + 2]

\* step = floor((endIdx - startIdx) / maxPoints) and dt of the resampled channel
C6_Step == (EndIdx - StartIdx) \div Request.maxPoints

C6_Dt == FMul(FNum(metadata.samplingInterval), FNum(RequestedChannel.downsampling))

C6_Times(q, width) ==
    LET t == RequestedChannel.time[Result.buckets[q].first + 1]
        o == C5_Offset(q)
    IN  /\ Result.time[o + 1] = t
        /\ Result.time[o + 2] = FAdd(t, width)
        /\ Result.time[o + 3] = FAdd(t, FMul(<<1, 2>>, width))

\* C6 as stated: a bucket with significant variation is pushed at t,
\* t + dt*step and t + 0.5*dt*step
C6_TimesScaledByStep ==
    (ReductionPath /\ Request.maxPoints >= 1) =>
        \A q \in 1..Len(Result.buckets) :
            Result.buckets[q].pushed = 3 => C6_Times(q, FMul(C6_Dt, FNum(C6_Step)))

\* C6 (amended): a bucket with significant variation is pushed at t, t + dt and
\* t + 0.5*dt, whatever the step
C6_TimesOneSample ==
    ReductionPath =>
        \A q \in 1..Len(Result.buckets) :
            Result.buckets[q].pushed = 3 => C6_Times(q, C6_Dt)

C6_Witness ==
    /\ ReductionPath
    /\ Request.maxPoints >= 1
    /\ C6_Step >= 2
    /\ RequestedChannel.downsampling = 2
    /\ \E q \in 1..Len(Result.buckets) : Result.buckets[q].pushed = 3

\* the i-th sample (i = 1, 2, ...) of a raw channel exists
C7_Has(c, i) == i <= Len(rawData[c].values)

C7_Raw(c, i) == rawData[c].values[i]

C7_Sum3(a, b, d) == FAdd(FAdd(FAbs(a), FAbs(b)), FAbs(d))

C7_Formula(k, i) ==
    LET D(n) == calculatedData[n].values[i]
    IN  CASE k = 0 -> C7_Has(0, i) /\ C7_Has(1, i)
                      /\ D(0) = FSub(FNeg(C7_Raw(0, i)), C7_Raw(1, i))
          [] k = 1 -> C7_Has(2, i) /\ C7_Has(3, i)
                      /\ D(1) = FSub(FNeg(C7_Raw(2, i)), C7_Raw(3, i))
          [] k = 2 -> C7_Has(4, i) /\ C7_Has(5, i)
                      /\ D(2) = FSub(FNeg(C7_Raw(4, i)), C7_Raw(5, i))
          [] k = 3 -> C7_Has(2, i) /\ C7_Has(3, i)
                      /\ D(3) = FMul(FNum(35), C7_Sum3(C7_Raw(2, i), C7_Raw(3, i), D(1)))
          [] k = 4 -> C7_Has(4, i) /\ C7_Has(5, i)
                      /\ D(4) = FMul(FNum(35), C7_Sum3(C7_Raw(4, i), C7_Raw(5, i), D(2)))
          [] k = 5 -> C7_Has(0, i) /\ C7_Has(1, i)
                      /\ D(5) = FDiv(C7_Sum3(C7_Raw(0, i), C7_Raw(1, i), D(0)), FNum(35))
          [] k = 6 -> C7_Has(6, i) /\ C7_Has(7, i)
                      /\ D(6) = FSub(FMul(C7_Raw(6, i), <<62832, 10000>>),
                                     FMul(C7_Raw(7, i), <<50108, 10000>>))

\* C7: for every index below a derived channel's point count the stored value
\* is the formula of the channel applied to the samples of its sources at that
\* index
C7_DerivedFormulas ==
    pc = "decoded" =>
        \A k \in DOMAIN calculatedData :
            \A i \in 1..calculatedData[k].points : C7_Formula(k, i)

\* the primary (first-listed) source of each derived channel
C8_Primary == <<0, 2, 4, 2, 4, 0, 6>>

\* C8: a derived channel has the downsampling factor and the point count of its
\* primary source, a time axis equal to the primary's but held in an array of
\* its own, and exactly `points` values
C8_InheritsPrimary ==
    pc = "decoded" =>
        \A k \in DOMAIN calculatedData :
            LET d == calculatedData[k]
                p == rawData[C8_Primary[k + 1]]
            IN  /\ d.downsampling = p.downsampling
                /\ d.points = p.points
                /\ d.time = p.time
                /\ \A c \in Channels : d.timeRef # rawData[c].timeRef
                /\ \A n \in DOMAIN calculatedData : n # k => d.timeRef # calculatedData[n].timeRef
                /\ Len(d.values) = d.points

C8_Witness ==
    /\ pc = "decoded"
    /\ DOMAIN calculatedData = CalcIndices
    /\ rawData[0].downsampling # rawData[1].downsampling
    /\ rawData[0].points # rawData[1].points
    /\ calculatedData[5].points >= 2

\* the raw channels each derived channel lists; the derived source of D3, D4
\* and D5 (D1, D2, D0) lists the same raw channels
C9_Sources == <<{0, 1}, {2, 3}, {4, 5}, {2, 3}, {4, 5}, {0, 1}, {6, 7}>>

C9_DerivedSource(k) == CASE k = 3 -> {1} [] k = 4 -> {2} [] k = 5 -> {0} [] OTHER -> {}

\* C9: whatever raw channels are absent, computeCalculatedChannels completes
\* and stores exactly the derived channels whose sources are all present, none
\* of them zero-filled
C9_SkipsOnlyMissing ==
    pc = "decoded" =>
        /\ DOMAIN calculatedData =
               {k \in CalcIndices : C9_Sources[k + 1] \subseteq DOMAIN rawData}
        /\ \A k \in DOMAIN calculatedData :
               /\ C9_DerivedSource(k) \subseteq DOMAIN calculatedData
               /\ \A i \in 1..Len(calculatedData[k].values) :
                      calculatedData[k].values[i] # FNum(0)

C9_Witness ==
    /\ pc = "decoded"
    /\ DOMAIN rawData = {0, 1, 2, 4, 5}
    /\ DOMAIN calculatedData = {0, 2, 4, 5}

\* the complete files: every field, string and sample present
C10_CompleteFiles ==
    {FileBytes(bufferSize, Downsamplings(dsA, dsB), pattern) :
        bufferSize \in 0..MaxBufferSize, dsA \in 1..MaxDownsampling,
        dsB \in 1..MaxDownsampling, pattern \in Patterns}

\* C10: a buffer that ends before the header fields, the strings or the sample
\* region are complete makes readFile fail, and a failed readFile leaves no
\* header field and no channel in the reader
C10_NoPartialState ==
    /\ (pc # "constructed" /\ buffer \notin C10_CompleteFiles) => pc = "failed"
    /\ pc = "failed" =>
           /\ DOMAIN metadata = {}
           /\ DOMAIN rawData = {}
           /\ DOMAIN calculatedData = {}

-----------------------------------------------------------------------------
(* readCSharpString: length prefix and payload *)

StringResult == call.result

\* the prefix bytes from the call's offset on: the index (0-based, from offset)
\* of the first byte whose high bit is 0, or -1 when the buffer ends first
RECURSIVE PrefixEnd(_)
PrefixEnd(k) ==
    IF call.offset + k >= Len(buffer) THEN -1
    ELSE IF buffer[call.offset + k + 1] < 128 THEN k
    ELSE PrefixEnd(k + 1)

PrefixBytes == PrefixEnd(0) + 1

\* the low 28 bits of the announced length: the sum of (byte_k & 0x7F) * 2^(7k)
\* over the first four prefix bytes
RECURSIVE PrefixLow(_)
PrefixLow(k) ==
    IF k >= PrefixBytes \/ k >= 4 THEN 0
    ELSE (buffer[call.offset + k + 1] % 128) * Pow2(7 * k) + PrefixLow(k + 1)

\* the contribution (byte_4 & 0x7F) of a fifth prefix byte, in units of 2^28
PrefixHigh == IF PrefixBytes = 5 THEN buffer[call.offset + 5] % 128 ELSE 0

\* the announced length as an integer, when it is below 2^31
AnnouncedLength == PrefixHigh * Pow2(28) + PrefixLow(0)

PayloadStart == call.offset + PrefixBytes

\* C11: readCSharpString returns successfully only when the length prefix and
\* the announced payload bytes lie inside the buffer: the string is built from
\* exactly `length` bytes and newOffset is not beyond the end of the buffer.
C11_FailsPastEnd ==
    (pc = "stringRead" /\ StringResult.ok) =>
        /\ PrefixBytes >= 1
        /\ StringResult.newOffset <= Len(buffer)
        /\ PrefixHigh < 8
        /\ PayloadStart + AnnouncedLength <= Len(buffer)

\* C14: for a prefix of 1 to 5 bytes, the call succeeds; with length 0 it
\* returns the empty string and newOffset = offset + prefix bytes; otherwise it
\* returns the next `length` bytes (decoded as UTF-8) and
\* newOffset = offset + prefix bytes + length, length being the sum of
\* (byte_k & 0x7F) * 2^(7k) over the prefix.
C14_LengthAndPayload ==
    (pc = "stringRead" /\ PrefixBytes >= 1 /\ PrefixBytes <= 5) =>
        /\ StringResult.ok
        /\ PrefixHigh < 8
        /\ StringResult.newOffset = PayloadStart + AnnouncedLength
        /\ PayloadStart + AnnouncedLength <= Len(buffer)
        /\ StringResult.value =
               Utf8ToString([k \in 1..AnnouncedLength |-> buffer[PayloadStart + k]])

-----------------------------------------------------------------------------
(* maxAdcValue = 0 *)

\* C12: a decode that succeeds did not read a maxAdcValue of 0, and no raw
\* channel holds a value that is NaN, +Infinity or -Infinity.
C12_ZeroMaxAdcAborts ==
    pc = "decoded" =>
        /\ metadata.maxAdcValue # 0
        /\ \A c \in DOMAIN rawData :
               \A i \in 1..Len(rawData[c].values) : IsFinite(rawData[c].values[i])

-----------------------------------------------------------------------------
(* convertBinaryTimestampToUnixMs *)

\* the low 62 bits of the two's-complement input, digit by digit
C13_Ticks == [k \in 1..8 |-> IF k = 8 THEN call.startTimeBinary[8] % 64
                             ELSE call.startTimeBinary[k]]

\* ticks - epoch >= 10000 * q, stated without subtraction or division
C13_QuotientAtLeast(q) ==
    ~BigLess(C13_Ticks, BigAdd(DotNetEpochTicks, BigMul(q, 10000)))

C13_Zero == BigOf(0)

C13_Limit == BigAdd(call.now, YearMs)

\* C13: with ticks the low 62 bits of rawTicks and q = floor((ticks - epoch) /
\* 10000), the result is q when ticks > epoch and 0 < q < now + one year, and 0
\* in every other case.
C13_MaskedTicksToUnixMs ==
    pc = "timestampConverted" =>
        IF call.result # C13_Zero
        THEN /\ BigLess(DotNetEpochTicks, C13_Ticks)
             /\ C13_QuotientAtLeast(call.result)
             /\ ~C13_QuotientAtLeast(BigAdd(call.result, BigOf(1)))
             /\ BigLess(call.result, C13_Limit)
        ELSE \/ ~BigLess(DotNetEpochTicks, C13_Ticks)
             \/ ~C13_QuotientAtLeast(BigOf(1))
             \/ C13_QuotientAtLeast(C13_Limit)

\* a negative input with kind flags set, whose masked ticks convert to 2 ms
C13_Witness ==
    /\ pc = "timestampConverted"
    /\ BigIsNegative(call.startTimeBinary)
    /\ call.result = BigOf(2)

-----------------------------------------------------------------------------
(* getResampledData is pure *)

C15_SameAnswer ==
    (resampled # << >> /\ earlier # << >> /\ resampled.request = earlier.request)
        => resampled.result = earlier.result

C15_DataUnchanged ==
    /\ rawData' = rawData
    /\ calculatedData' = calculatedData
    /\ metadata' = metadata

C16_NoSamples ==
    IF resampled # << >> /\ HasChannel(rawData, calculatedData, Request.channelId)
    THEN Len(RequestedChannel.time) = 0 /\ Len(RequestedChannel.values) = 0
    ELSE FALSE

\* the request was for a channel id that names no channel
C16_UnknownChannel ==
    resampled # << >> /\ ~HasChannel(rawData, calculatedData, Request.channelId)

\* C16: for every start, end and maxPoints, getResampledData answers the empty
\* series {time: [], values: []} when the channel id is unknown and when the
\* channel exists but has zero samples
C16_EmptySeries ==
    (C16_UnknownChannel \/ C16_NoSamples)
        => (Result.time = << >> /\ Result.values = << >>)

\* an existing channel without samples was asked for with a negative maxPoints,
\* so the answer came from the bucket loop and not from the slice
C16_Witness ==
    /\ C16_NoSamples
    /\ Request.maxPoints < 0
    /\ Result.time = << >>

\* i * samplingInterval * downsamplingFactor[c], in nanoseconds, for the
\* 1-based position k = i + 1 of channel c's time array
C17_Time(c, k) == <<(k - 1) * metadata.samplingInterval * metadata.downsampling[c + 1], 1>>

\* C17: for every raw channel c and every index i of its time array,
\* time[i] = i * samplingInterval * downsamplingFactor[c] (the channel's own
\* sample index, not the row index), and the time array is non-decreasing
\* when downsamplingFactor[c] >= 1
C17_RawTimeAxis ==
    pc = "decoded" =>
        \A c \in Channels :
            /\ \A k \in 1..Len(rawData[c].time) : rawData[c].time[k] = C17_Time(c, k)
            /\ metadata.downsampling[c + 1] >= 1 =>
                   \A k \in 1..(Len(rawData[c].time) - 1) :
                       FLeq(rawData[c].time[k], rawData[c].time[k + 1])

\* a decoded file in which a channel with factor 2 holds three samples, the
\* third at twice the channel's step and not at row 2's time
C17_Witness ==
    /\ pc = "decoded"
    /\ metadata.downsampling[1] = 2
    /\ Len(rawData[0].time) = 3
    /\ rawData[0].time[3] = <<4 * metadata.samplingInterval, 1>>
    /\ metadata.samplingInterval > 0

\* the full-scale voltages of the codes 0..13, in order
C18_Table ==
    <<<<1, 100>>, <<1, 50>>, <<1, 20>>, <<1, 10>>, <<1, 5>>, <<1, 2>>, <<1, 1>>,
      <<2, 1>>, <<5, 1>>, <<10, 1>>, <<20, 1>>, <<50, 1>>, <<100, 1>>, <<200, 1>>>>

C18_Range ==
    IF call.channelRange \in 0..13 THEN C18_Table[call.channelRange + 1] ELSE <<5, 1>>

\* C18: convertAdcToPhysical takes as full-scale voltage the table value for
\* every rangeCode in 0..13 and 5.0 for every other code, and returns
\* (scaling/1000) * (rawAdc/maxAdc) * voltageRange * 1000
C18_RangeTableAndFormula ==
    pc = "converted" =>
        call.result =
            FMul(FMul(FMul(FDiv(FNum(call.channelScaling), FNum(1000)),
                           FDiv(FNum(call.rawAdc), FNum(call.maxAdcValue))),
                      C18_Range),
                 FNum(1000))

\* a call with a negative range code and a finite, non-zero result: the
\* fallback voltage 5.0 is visible in it
C18_Witness ==
    /\ pc = "converted"
    /\ call.channelRange < 0
    /\ call.rawAdc = 1
    /\ call.maxAdcValue = 4
    /\ call.channelScaling = 8
    /\ call.result = <<10, 1>>

-----------------------------------------------------------------------------
(* The buckets of the reduction path *)

C19_Total == EndIdx - StartIdx

C19_Step == C19_Total \div Request.maxPoints

\* ceil(total / step)
C19_BucketCount == (C19_Total + C19_Step - 1) \div C19_Step

\* the window samples of bucket b include a NaN
C19_HasNaN(b) == \E i \in C5_Window(b) : IsNaN(C5_Value(i))

\* Math.min and Math.max over the samples of bucket b
C19_Min(b) == IF C19_HasNaN(b) THEN NaN ELSE C5_Min(b)

C19_Max(b) == IF C19_HasNaN(b) THEN NaN ELSE C5_Max(b)

\* the buckets are consecutive runs of step samples from startIdx, the last one
\* running to endIdx, and the average a bucket pushes is that of its samples
C19_Partition ==
    (ReductionPath /\ Request.maxPoints >= 1) =>
        /\ C19_Step >= 1
        /\ Len(Result.buckets) = C19_BucketCount
        /\ \A q \in 1..Len(Result.buckets) :
               LET b == Result.buckets[q]
               IN  /\ b.first = StartIdx + (q - 1) * C19_Step
                   /\ b.count = (IF q < Len(Result.buckets) THEN C19_Step
                                 ELSE C19_Total - (q - 1) * C19_Step)
                   /\ b.count \in 1..C19_Step
                   /\ Result.values[C5_Offset(q) + b.pushed] = C5_Avg(b)
        /\ \A i \in StartIdx..(EndIdx - 1) :
               Cardinality({q \in 1..Len(Result.buckets) :
                               i \in C5_Window(Result.buckets[q])}) = 1

\* min <= avg <= max in every bucket
C19_Ordered ==
    (ReductionPath /\ Request.maxPoints >= 1) =>
        \A q \in 1..Len(Result.buckets) :
            LET b == Result.buckets[q]
            IN  /\ FLeq(C19_Min(b), C5_Avg(b))
                /\ FLeq(C5_Avg(b), C19_Max(b))

\* the same order, for the requests on a channel all of whose samples are finite
C19_OrderedFinite ==
    IF ReductionPath
    THEN (\A i \in 1..Len(RequestedChannel.values) : IsFinite(RequestedChannel.values[i]))
             => C19_Ordered
    ELSE TRUE

\* C19: on the reduction path (endIdx - startIdx > maxPoints >= 1) step >= 1,
\* the buckets partition the window [startIdx, endIdx) into
\* ceil((endIdx - startIdx) / step) buckets of step samples (the last possibly
\* shorter), and every bucket's min, max and avg are those of its own samples,
\* with min <= avg <= max
C19_BucketsPartitionWindow == C19_Partition /\ C19_Ordered

-----------------------------------------------------------------------------
(* findTimeIndex *)

\* the indices i with time[i] >= t
C20_AtOrAfter == {i \in 0..(Len(call.timeArray) - 1) : FLeq(call.targetTime, call.timeArray[i + 1])}

C20_Expected ==
    IF C20_AtOrAfter = {} THEN Len(call.timeArray) - 1
    ELSE CHOOSE i \in C20_AtOrAfter : \A k \in C20_AtOrAfter : i <= k

\* C20: for every non-decreasing time array of length len >= 1 and every
\* target t, findTimeIndex returns the leftmost index i with time[i] >= t, or
\* len - 1 when no such index exists; the result lies in [0, len - 1]
C20_LeftmostAtOrAfter ==
    pc = "found" =>
        /\ call.result \in 0..(Len(call.timeArray) - 1)
        /\ call.result = C20_Expected

\* the same for the targets that are not NaN
C20_LeftmostForNumbers ==
    (pc = "found" /\ ~IsNaN(call.targetTime)) => C20_LeftmostAtOrAfter

-----------------------------------------------------------------------------
(* The last sample of a channel *)

\* the channel with another number at index len - 1 of its values, len being
\* the length of its time array
C21_Marked(channelData) ==
    [channelData EXCEPT !.values =
        [k \in 1..Len(channelData.values) |->
            IF k = Len(channelData.time) THEN <<987654, 1>> ELSE channelData.values[k]]]

C21_Raw ==
    IF Request.channelId[1] # "calc_"
    THEN [rawData EXCEPT ![Request.channelId[2]] = C21_Marked(@)]
    ELSE rawData

C21_Calc ==
    IF Request.channelId[1] = "calc_"
    THEN [calculatedData EXCEPT ![Request.channelId[2]] = C21_Marked(@)]
    ELSE calculatedData

\* the answer to the same request when values[len - 1] is another number
C21_Answer ==
    GetResampledData(C21_Raw, C21_Calc, metadata, Request.channelId,
                     Request.startTime, Request.endTime, Request.maxPoints)

\* C21: for every start, end and maxPoints no output point of getResampledData
\* is taken from or computed with values[len - 1], the final sample of the
\* channel: the answer is the same whatever that sample is, and the window
\* ends at or before index len - 1
C21_LastSampleUnused ==
    Answering =>
        /\ Len(RequestedChannel.time) >= 1 => EndIdx <= Len(RequestedChannel.time) - 1
        /\ C21_Answer.values = Result.values
        /\ C21_Answer.time = Result.time

\* a request whose end lies beyond the last timestamp of a channel of three or
\* more samples, answered with samples, the last sample differing from the
\* one before it
C21_Witness ==
    /\ Answering
    /\ Len(RequestedChannel.time) >= 3
    /\ Len(RequestedChannel.values) = Len(RequestedChannel.time)
    /\ FLess(RequestedChannel.time[Len(RequestedChannel.time)], Request.endTime)
    /\ Len(Result.values) >= 2
    /\ RequestedChannel.values[Len(RequestedChannel.values)]
           # RequestedChannel.values[Len(RequestedChannel.values) - 1]

-----------------------------------------------------------------------------
(* Buckets with a zero average *)

\* C22: a bucket whose average is zero (for example values -5 and +5) is
\* classified as not significant and emits a single point, whatever its
\* max - min spread
C22_ZeroAverageSinglePoint ==
    (ReductionPath /\ Request.maxPoints >= 1) =>
        \A q \in 1..Len(Result.buckets) :
            C5_Avg(Result.buckets[q]) = FNum(0) => Result.buckets[q].pushed = 1

-----------------------------------------------------------------------------
(* Derived channels of sources with different point counts *)

\* the two raw sources of derived channel k exist and differ in point count
C23_Mismatch(k) ==
    /\ C9_Sources[k + 1] \subseteq DOMAIN rawData
    /\ \E a, b \in C9_Sources[k + 1] : rawData[a].points # rawData[b].points

\* calculatedData at the time derived channel k is computed: the channels
\* before k, which are stored in ascending order
C23_CalcBefore(k) == Restrict(calculatedData, {j \in DOMAIN calculatedData : j < k})

\* C23: when the two raw sources of a derived channel have different point
\* counts, a warning or error is written for that derived channel and no
\* stored value is computed from an element that one of the sources lacks
C23_MismatchFlagged ==
    pc = "decoded" =>
        \A k \in CalcIndices :
            C23_Mismatch(k) =>
                /\ ComputeWarnings(rawData, C23_CalcBefore(k), k) # {}
                /\ k \in DOMAIN calculatedData =>
                       \A i \in 1..Len(calculatedData[k].values) :
                           \A c \in C9_Sources[k + 1] : i <= Len(rawData[c].values)

-----------------------------------------------------------------------------
(* The order of the derived channels *)

\* the step stores derived channel k
C24_Stores(k) == k \notin DOMAIN calculatedData /\ k \in DOMAIN calculatedData'

\* derived channel d is stored with all its points
C24_Complete(d) ==
    /\ d \in DOMAIN calculatedData
    /\ Len(calculatedData[d].values) = calculatedData[d].points

C24_Step ==
    \A k \in {3, 4, 5} :
        C24_Stores(k) =>
            /\ \A d \in C9_DerivedSource(k) : C24_Complete(d)
            /\ \A i \in 1..Len(calculatedData'[k].values) :
                   calculatedData'[k].values[i] # FNum(0)

\* C24: the differential channels are stored before their dependants are
\* computed: calc_1 is complete before calc_3, calc_2 before calc_4 and calc_0
\* before calc_5, and no dependant is computed while its differential source
\* is missing from calculatedData
C24_DifferentialsFirst == [][C24_Step]_vars

\* calc_3 has just been stored, computed from the stored calc_1
C24_Witness ==
    /\ pc = "deriving"
    /\ call.position = 5
    /\ 3 \in DOMAIN calculatedData
    /\ C24_Complete(1)
    /\ Len(calculatedData[3].values) = 2

-----------------------------------------------------------------------------
(* The answer's arrays have one length and come from inside the value array *)

\* the channel with two more numbers after the end of its value array
C25_Extended(channelData) ==
    [channelData EXCEPT !.values = @ \o <<<<987654, 1>>, <<987654, 1>>>>]

C25_Raw ==
    IF Request.channelId[1] # "calc_"
    THEN [rawData EXCEPT ![Request.channelId[2]] = C25_Extended(@)]
    ELSE rawData

C25_Calc ==
    IF Request.channelId[1] = "calc_"
    THEN [calculatedData EXCEPT ![Request.channelId[2]] = C25_Extended(@)]
    ELSE calculatedData

\* the answer to the same request when numbers follow the end of the value array
C25_Answer ==
    GetResampledData(C25_Raw, C25_Calc, metadata, Request.channelId,
                     Request.startTime, Request.endTime, Request.maxPoints)

\* C25: for every channel decode or derive produces, every start and end and
\* every maxPoints >= 1 the time and values arrays of the answer have the same
\* length and no output value is read from an index outside the channel's
\* value array: the answer does not change when numbers are placed there
C25_SameLengthInBounds ==
    (Answering /\ Request.maxPoints >= 1) =>
        /\ Len(Result.time) = Len(Result.values)
        /\ C25_Answer.values = Result.values
        /\ C25_Answer.time = Result.time

\* a raw channel whose value array is shorter than its time array, answered
\* with two or more samples up to the end of its value array
C25_Witness ==
    /\ Answering
    /\ Request.maxPoints >= 1
    /\ Request.channelId[1] # "calc_"
    /\ Len(RequestedChannel.values) < Len(RequestedChannel.time)
    /\ EndIdx = Len(RequestedChannel.values)
    /\ Len(Result.values) >= 2

-----------------------------------------------------------------------------
(* The order of the answer's timestamps *)

\* C26: the time array returned by getResampledData is non-decreasing: each
\* emitted timestamp is >= the one emitted before it, within a bucket and
\* across buckets
C26_TimesNonDecreasing ==
    resampled # << >> =>
        \A i \in 1..(Len(Result.time) - 1) : FLeq(Result.time[i], Result.time[i + 1])

\* the same for the answers in which no bucket pushed three points
C26_SinglePointsNonDecreasing ==
    (resampled # << >> /\ \A q \in 1..Len(Result.buckets) : Result.buckets[q].pushed = 1)
        => C26_TimesNonDecreasing

-----------------------------------------------------------------------------
(* Termination of getResampledData *)

\* C27: getResampledData terminates for every channel, every window and every
\* integer maxPoints the routes can pass to it, including maxPoints = 0 and
\* negative maxPoints
C27_Terminates == <>(pc = "returned")

\* the same for the requests with maxPoints >= 0
C27_TerminatesFromZeroUp == (pc = "requested" /\ call.maxPoints >= 0) ~> (pc = "returned")

\* a returned call's answer is the one GetResampledData gives
C27_SameAnswer ==
    pc = "returned" =>
        Result = GetResampledData(rawData, calculatedData, metadata, call.channelId,
                                  call.startTime, call.endTime, call.maxPoints)

\* C28: on the reduction path with maxPoints >= 1 there are at most
\* 2*maxPoints - 1 buckets, the number of output points lies between the number
\* of buckets and three times that number, and so it never exceeds
\* 6*maxPoints - 3 (it can exceed maxPoints)
C28_PointCountBounds ==
    (ReductionPath /\ Request.maxPoints >= 1) =>
        /\ Len(Result.buckets) <= 2 * Request.maxPoints - 1
        /\ Len(Result.buckets) <= Len(Result.values)
        /\ Len(Result.values) <= 3 * Len(Result.buckets)
        /\ Len(Result.values) <= 6 * Request.maxPoints - 3
        /\ Len(Result.time) = Len(Result.values)

\* a request for two points answered with the most buckets, 2*maxPoints - 1,
\* and so with more points than maxPoints
C28_Witness ==
    /\ ReductionPath
    /\ Request.maxPoints = 2
    /\ Len(Result.buckets) = 2 * Request.maxPoints - 1
    /\ Len(Result.values) > Request.maxPoints

\* a request for one point answered with 6*maxPoints - 3 = 3 points
C28_MostPoints ==
    ReductionPath /\ Request.maxPoints = 1 /\ Len(Result.values) = 3

-----------------------------------------------------------------------------
(* SimplePlotter: /api/load and the data routes, one step per await *)

MaxLoads == 2           \* /api/load requests in flight together: 1..MaxLoads

LoadIds == 1..MaxLoads

\* the file at BINARY_FILE_PATH: absent, one of two complete files, or the
\* first of them cut short
ServerFiles ==
    {FileBytes(2, Downsamplings(1, 1), "ramp"),
     FileBytes(2, Downsamplings(1, 2), "ramp"),
     SubSeq(FileBytes(2, Downsamplings(1, 1), "ramp"), 1,
            Len(FileBytes(2, Downsamplings(1, 1), "ramp")) - 1)}

ServerDisk ==
    {[exists |-> FALSE, bytes |-> << >>]}
    \cup {[exists |-> TRUE, bytes |-> bytes] : bytes \in ServerFiles}

\* /^channel_[0-7]$/, /^calc_[0-6]$/ or the legacy /^[0-7]$/
IsValidChannelId(channelId) ==
    \/ channelId[1] = "channel_" /\ channelId[2] \in 0..7
    \/ channelId[1] = "calc_" /\ channelId[2] \in 0..6
    \/ channelId[1] = "" /\ channelId[2] \in 0..7

\* the channel ids of the modelled /api/data requests: a raw channel, a
\* derived channel and an id that is not valid
ServerChannelIds == {<<"channel_", 1>>, <<"calc_", 0>>, <<"channel_", 8>>}

\* the routes that begin with the test of this.processor
DataRoutes == {"data", "bulk", "stats", "channels", "timerange", "ranges"}

Response(route, of, status, error, data) ==
    [route |-> route, of |-> of, status |-> status, error |-> error, data |-> data]

\* a faulty variant of NewDataProcessor: the arguments of the earlier
\* constructor (rawData, metadata), so that calculatedData is the metadata
NewDataProcessorTwoArguments(binaryReader) ==
    [rawData |-> binaryReader.rawData,
     calculatedData |-> binaryReader.metadata,
     metadata |-> binaryReader.metadata]

\* new DataProcessor(binaryReader.getRawData(), binaryReader.getCalculatedData(),
\*                   binaryReader.getMetadata())
NewDataProcessor(binaryReader) ==
    [rawData |-> binaryReader.rawData,
     calculatedData |-> binaryReader.calculatedData,
     metadata |-> binaryReader.metadata]

\* this.binaryData = null; this.processor = null; no request handled yet.
\* earlier is this.binaryData; rawData, calculatedData and metadata are the
\* fields of this.processor (metadata = << >> stands for processor = null);
\* call[r] is the binaryReader of load r; reads records the load the processor
\* was built by and the number of loads answered with success.
InitServer ==
    /\ pc = [r \in LoadIds |-> "arrived"]
    /\ buffer \in ServerDisk
    /\ metadata = << >>
    /\ rawData = << >>
    /\ calculatedData = << >>
    /\ earlier = << >>
    /\ call = [r \in LoadIds |-> << >>]
    /\ reads = [of |-> 0, succeeded |-> 0]
    /\ resampled = << >>

\* await fs.access(this.BINARY_FILE_PATH): a missing file is answered with 500
DoLoadAccess(r) ==
    /\ pc[r] = "arrived"
    /\ IF buffer.exists
       THEN /\ pc' = [pc EXCEPT ![r] = "reading"]
            /\ UNCHANGED resampled
       ELSE /\ pc' = [pc EXCEPT ![r] = "failed"]
            /\ resampled' = Response("load", r, 500, "Binary file not found", << >>)
    /\ UNCHANGED <<buffer, metadata, rawData, calculatedData, reads, call, earlier>>

\* await binaryReader.readFile() on the handler's own reader: the file's bytes
\* are those on disk now; a read or decode error is answered with 500
DoLoadReadFile(r) ==
    /\ pc[r] = "reading"
    /\ IF ~buffer.exists
       THEN /\ pc' = [pc EXCEPT ![r] = "failed"]
            /\ resampled' = Response("load", r, 500, "ENOENT", << >>)
            /\ UNCHANGED call
       ELSE \E decoded \in {ReadFile(buffer.bytes)} :
                IF decoded.threw
                THEN /\ pc' = [pc EXCEPT ![r] = "failed"]
                     /\ resampled' = Response("load", r, 500, "decode", << >>)
                     /\ UNCHANGED call
                ELSE /\ pc' = [pc EXCEPT ![r] = "read"]
                     /\ call' = [call EXCEPT ![r] =
                            [of |-> r, metadata |-> decoded.metadata,
                             rawData |-> decoded.rawData,
                             calculatedData |-> decoded.calculatedData]]
                     /\ UNCHANGED resampled
    /\ UNCHANGED <<buffer, metadata, rawData, calculatedData, reads, earlier>>

\* after the await: this.binaryData = binaryReader; this.processor = new
\* DataProcessor(...); res.json({success: true, ...}), without an await between
DoLoadAssign(r) ==
    /\ pc[r] = "read"
    /\ earlier' = call[r]
    /\ \E processor \in {NewDataProcessor(call[r])} :
           /\ rawData' = processor.rawData
           /\ calculatedData' = processor.calculatedData
           /\ metadata' = processor.metadata
    /\ reads' = [of |-> r, succeeded |-> reads.succeeded + 1]
    /\ resampled' = Response("load", r, 200, "", << >>)
    /\ pc' = [pc EXCEPT ![r] = "succeeded"]
    /\ UNCHANGED <<buffer, call>>

\* GET /api/data/:channelId with start = 0, end = 2000 ns and maxPoints = 2
DoGetChannelData(channelId) ==
    /\ resampled' =
           IF metadata = << >>
           THEN Response("data", 0, 404, "No file loaded", << >>)
           ELSE IF ~IsValidChannelId(channelId)
           THEN Response("data", 0, 400, "Invalid channel ID format", << >>)
           ELSE IF ~HasChannel(rawData, calculatedData, channelId)
           THEN Response("data", 0, 404, "Channel not found", << >>)
           ELSE Response("data", 0, 200, "",
                    GetResampledData(rawData, calculatedData, metadata, channelId,
                                     FNum(0), FNum(2000), 2))
    /\ UNCHANGED <<pc, buffer, metadata, rawData, calculatedData, reads, call, earlier>>

\* the other routes that test this.processor first; what they answer from a
\* processor is not modelled
DoOtherDataRoute(route) ==
    /\ resampled' =
           IF metadata = << >>
           THEN Response(route, 0, 404, "No file loaded", << >>)
           ELSE Response(route, 0, 200, "", << >>)
    /\ UNCHANGED <<pc, buffer, metadata, rawData, calculatedData, reads, call, earlier>>

\* the file at BINARY_FILE_PATH is replaced, cut short or removed
DoReplaceFile ==
    /\ buffer' \in ServerDisk \ {buffer}
    /\ UNCHANGED <<pc, metadata, rawData, calculatedData, reads, resampled, call, earlier>>

NextServer ==
    \/ \E r \in LoadIds : DoLoadAccess(r)
    \/ \E r \in LoadIds : DoLoadReadFile(r)
    \/ \E r \in LoadIds : DoLoadAssign(r)
    \/ \E channelId \in ServerChannelIds : DoGetChannelData(channelId)
    \/ \E route \in DataRoutes \ {"data"} : DoOtherDataRoute(route)
    \/ DoReplaceFile

SpecServer == InitServer /\ [][NextServer]_vars

\* this.processor is null
C29_NoProcessor == metadata = << >>

\* a data route's answer given while no load has been answered with success
C29_NotLoadedAnswer ==
    (resampled # << >> /\ reads.succeeded = 0) =>
        \/ resampled.route = "load" /\ resampled.status = 500
        \/ /\ resampled.route \in DataRoutes
           /\ resampled.status = 404
           /\ resampled.error = "No file loaded"

\* this.processor wraps the data of this.binaryData, and both are of one load
C29_ProcessorOfBinaryData ==
    /\ C29_NoProcessor <=> earlier = << >>
    /\ C29_NoProcessor <=> reads.succeeded = 0
    /\ ~C29_NoProcessor =>
           /\ reads.of = earlier.of
           /\ rawData = earlier.rawData
           /\ calculatedData = earlier.calculatedData
           /\ metadata = earlier.metadata

\* a step that ends a load in failure leaves this.binaryData and this.processor
\* alone, and they change only in the step that answers a load with success
C29_LoadStep ==
    /\ \A r \in LoadIds :
           (pc[r] # "failed" /\ pc'[r] = "failed") =>
               UNCHANGED <<earlier, metadata, rawData, calculatedData>>
    /\ <<earlier, metadata, rawData, calculatedData, reads>>'
           # <<earlier, metadata, rawData, calculatedData, reads>> =>
               \E r \in LoadIds :
                   /\ pc[r] = "read" /\ pc'[r] = "succeeded"
                   /\ resampled'.route = "load" /\ resampled'.status = 200

-----------------------------------------------------------------------------
(* The legacy plot layout manager: zoom events, the debounce timer and
   performZoomResample, one step per await *)

MaxResamples == 3       \* performZoomResample calls in progress together: 1..MaxResamples
MaxPlots == 3           \* plots made by createPlot, numbered 1..MaxPlots

ResampleIds == 1..MaxResamples

\* the calls of performZoomResample that are between isHandlingZoom = true and
\* their finally block
InProgress == {i \in ResampleIds : pc[i].at \in {"building", "reacting"}}

\* isHandlingZoom = false, zoomTimeout = null, no plot yet.  call is the
\* manager's closure state, metadata is sharedState (currentPlot = 0 stands for
\* null), pc[i] is the position of the i-th performZoomResample call and the
\* plot it started on; reads counts the plots created and the calls of
\* destroy; resampled is the last Plotly.react: the plot its call started on
\* and the plot it was applied to.
InitZoom ==
    /\ pc = [i \in ResampleIds |-> [at |-> "idle", startedOn |-> 0]]
    /\ call = [isHandlingZoom |-> FALSE, zoomTimeout |-> "null"]
    /\ metadata = [currentPlot |-> 0]
    /\ reads = [created |-> 0, destroyed |-> 0]
    /\ resampled = << >>
    /\ buffer = << >>
    /\ rawData = << >>
    /\ calculatedData = << >>
    /\ earlier = << >>

\* performZoomResample up to its first await: nothing when isHandlingZoom is
\* set; otherwise isHandlingZoom = true and buildAllTraces is awaited
PerformZoomResample(timeout) ==
    IF call.isHandlingZoom
    THEN /\ call' = [call EXCEPT !.zoomTimeout = timeout]
         /\ UNCHANGED pc
    ELSE \E i \in ResampleIds :
             /\ pc[i].at = "idle"
             /\ \A j \in ResampleIds : j < i => pc[j].at # "idle"
             /\ pc' = [pc EXCEPT ![i] = [at |-> "building",
                                         startedOn |-> metadata.currentPlot]]
             /\ call' = [isHandlingZoom |-> TRUE, zoomTimeout |-> timeout]

\* createPlot: sharedState.currentPlot = await Plotly.newPlot(...) and
\* setupEventListeners()
DoCreatePlot ==
    /\ reads.created < MaxPlots
    /\ metadata' = [currentPlot |-> reads.created + 1]
    /\ reads' = [reads EXCEPT !.created = reads.created + 1]
    /\ UNCHANGED <<pc, buffer, rawData, calculatedData, resampled, call, earlier>>

\* handleZoomEvent as the plot's plotly_relayout listener, with an x range:
\* nothing while isHandlingZoom, otherwise the timer is set anew
DoHandleZoomEvent ==
    /\ metadata.currentPlot # 0
    /\ call' = IF call.isHandlingZoom THEN call
               ELSE [call EXCEPT !.zoomTimeout = "pending"]
    /\ UNCHANGED <<pc, buffer, metadata, rawData, calculatedData, reads, resampled, earlier>>

\* the debounce timer fires: await performZoomResample(startTime, endTime)
DoZoomTimeout ==
    /\ call.zoomTimeout = "pending"
    /\ PerformZoomResample("fired")
    /\ UNCHANGED <<buffer, metadata, rawData, calculatedData, reads, resampled, earlier>>

\* refreshCurrentView with a plot whose layout has an x range
DoRefreshCurrentView ==
    /\ metadata.currentPlot # 0
    /\ PerformZoomResample(call.zoomTimeout)
    /\ UNCHANGED <<buffer, metadata, rawData, calculatedData, reads, resampled, earlier>>

\* buildAllTraces resolves: Plotly.react('plot', result.traces,
\* sharedState.currentPlot.layout) is called and awaited; with currentPlot null
\* the argument throws and the call goes through catch to finally
DoBuildAllTracesResolved(i) ==
    /\ pc[i].at = "building"
    /\ IF metadata.currentPlot = 0
       THEN /\ pc' = [pc EXCEPT ![i] = [at |-> "idle", startedOn |-> 0]]
            /\ call' = [call EXCEPT !.isHandlingZoom = FALSE]
            /\ UNCHANGED resampled
       ELSE /\ pc' = [pc EXCEPT ![i].at = "reacting"]
            /\ resampled' = [startedOn |-> pc[i].startedOn,
                             appliedTo |-> metadata.currentPlot]
            /\ UNCHANGED call
    /\ UNCHANGED <<buffer, metadata, rawData, calculatedData, reads, earlier>>

\* Plotly.react resolves or rejects: finally { isHandlingZoom = false }
DoReactResolved(i) ==
    /\ pc[i].at = "reacting"
    /\ pc' = [pc EXCEPT ![i] = [at |-> "idle", startedOn |-> 0]]
    /\ call' = [call EXCEPT !.isHandlingZoom = FALSE]
    /\ UNCHANGED <<buffer, metadata, rawData, calculatedData, reads, resampled, earlier>>

\* destroy: listeners removed, plot purged, timer cleared, isHandlingZoom =
\* false, sharedState.currentPlot = null
DoDestroy ==
    /\ reads.destroyed < MaxPlots
    /\ call' = [isHandlingZoom |-> FALSE, zoomTimeout |-> "null"]
    /\ metadata' = [currentPlot |-> 0]
    /\ reads' = [reads EXCEPT !.destroyed = reads.destroyed + 1]
    /\ UNCHANGED <<pc, buffer, rawData, calculatedData, resampled, earlier>>

NextZoom ==
    \/ DoCreatePlot
    \/ DoHandleZoomEvent
    \/ DoZoomTimeout
    \/ DoRefreshCurrentView
    \/ \E i \in ResampleIds : DoBuildAllTracesResolved(i)
    \/ \E i \in ResampleIds : DoReactResolved(i)
    \/ DoDestroy

SpecZoom == InitZoom /\ [][NextZoom]_vars

\* at most one performZoomResample body is in progress
C30_OneBody == Cardinality(InProgress) <= 1

\* a resample's traces are applied to the plot the resample started on
C30_AppliedToOwnPlot ==
    resampled # << >> => resampled.appliedTo = resampled.startedOn

\* C30: in the legacy plot layout manager at most one performZoomResample body
\* is in progress at any time under every interleaving of zoom events, timer
\* firings, refreshCurrentView, destroy and createPlot, and a completed resample
\* never applies traces to a plot created after it started
C30_SingleResampleOnOwnPlot == C30_OneBody /\ C30_AppliedToOwnPlot

\* until destroy is called, isHandlingZoom does keep the bodies apart
C30_OneBodyUntilDestroy == reads.destroyed = 0 => C30_OneBody

=============================================================================
